---- MODULE Spec2Model ----
(***************************************************************************)
(* A model of the scalar-field painter: the scalar grid (ScalarField) and  *)
(* its radial merges, the flood fill with contour shading (FloodFill) and  *)
(* the marching-squares extraction (MarchingSquares).                      *)
(*                                                                         *)
(* Field values are JavaScript numbers.  They are modelled as exact        *)
(* rationals <<n, d>> in lowest terms with d > 0; <<1, 0>> is +Infinity    *)
(* and <<0, 0>> is NaN.  Within the bounds used here every quotient the    *)
(* code forms is a ratio of small integers, so the order of the doubles is *)
(* the order of the rationals.                                             *)
(***************************************************************************)
EXTENDS Integers, Sequences, FiniteSets, TLC

VARIABLES
    values,            \* ScalarField.values: rows of numbers, values[y+1][x+1]
    pc,                \* position of the running operation
    call,              \* the arguments of the running operation
    floodStack,        \* FloodFill.floodStack
    contourStack,      \* FloodFill.contourStack
    nextContourStack,  \* FloodFill.nextContourStack
    values0,           \* history: the grid when the operation was called
    flooded,           \* history: the cells the flood loop has set
    scanned,           \* history: the cells a merge has visited
    returned,          \* the value the last call returned, if it returns one
    admissions,        \* history: the nodes checkAnAddContourNode has queued
    nodeStock,         \* FloodFill.nodeStock: the elements of the Stock
    contourNodeStock,  \* FloodFill.contourNodeStock: the elements of the Stock
    floodNodes,        \* the objects on floodStack, by identity, in order
    contourNodes,      \* the objects on contourStack, by identity, in order
    nextContourNodes,  \* the objects on nextContourStack, by identity, in order
    created,           \* how many Node and ContourNode objects were created
    calls,             \* history: the number of fillFrom / unfillFrom calls begun
    shapePainter,      \* the calls the ShapePainter has received, in order
    squareX,           \* MarchingSquares: the loop variables of the scan
    squareY,
    first15SquareX,    \* MarchingSquares.fillContour: start of the current run
    workingPoint,      \* MarchingSquares.workingPoint
    firstPainter,      \* history: the calls received during the first run
    runs               \* history: the number of extraction runs begun

poolVars == <<nodeStock, contourNodeStock, floodNodes, contourNodes,
              nextContourNodes, created, calls>>
floodVars == <<floodStack, contourStack, nextContourStack, flooded, admissions,
               poolVars>>
marchVars == <<shapePainter, squareX, squareY, first15SquareX, workingPoint,
               firstPainter, runs>>
vars == <<values, values0, pc, call, floodVars, scanned, returned, marchVars>>

-----------------------------------------------------------------------------
(* Bounds of the model.                                                    *)

DimX == 3
DimY == 2
MaxCell == 1
MaxThickness == 2
MaxRatio == 2
MaxStack == 12
MaxSample == 2
RunLength == 4
MaxRuns == 2
ShadeDimX == 4
ShadeDimY == 3
HighCell == 2
WideThickness == 3
MaxCalls == 2

-----------------------------------------------------------------------------
(* Numbers.                                                                *)

RECURSIVE GCD(_, _)
GCD(a, b) == IF b = 0 THEN a ELSE GCD(b, a % b)

AbsInt(n) == IF n < 0 THEN -n ELSE n

Infinity == <<1, 0>>
NaN == <<0, 0>>

Norm(n, d) ==
    IF d = 0 THEN (IF n > 0 THEN Infinity ELSE IF n < 0 THEN <<-1, 0>> ELSE NaN)
    ELSE LET s == IF d < 0 THEN -1 ELSE 1
             g == GCD(AbsInt(n), AbsInt(d))
         IN  <<(s * n) \div g, (s * d) \div g>>

Num(n) == <<n, 1>>

RLt(a, b) == a[1] * b[2] < b[1] * a[2]
RGt(a, b) == RLt(b, a)
RLe(a, b) == a[1] * b[2] <= b[1] * a[2] /\ a # NaN /\ b # NaN
RMul(a, b) == Norm(a[1] * b[1], a[2] * b[2])
RDiv(a, b) == Norm(a[1] * b[2], a[2] * b[1])
RAdd(a, b) == Norm(a[1] * b[2] + b[1] * a[2], a[2] * b[2])
RSub(a, b) == Norm(a[1] * b[2] - b[1] * a[2], a[2] * b[2])
RMax(a, b) == IF RLt(a, b) THEN b ELSE a
RMin(a, b) == IF RLt(b, a) THEN b ELSE a
RAbs(a) == <<AbsInt(a[1]), a[2]>>
Floor(a) == a[1] \div a[2]
Ceil(a) == -((-a[1]) \div a[2])
\* Math.round: the nearest integer, halves towards +Infinity
Round(a) == Floor(RAdd(a, <<1, 2>>))

-----------------------------------------------------------------------------
(* ScalarField.                                                            *)

dimY(v) == Len(v)
dimX(v) == IF Len(v) > 0 THEN Len(v[1]) ELSE 0

isInside(v, x, y) == x >= 0 /\ x <= dimX(v) - 1 /\ y >= 0 /\ y <= dimY(v) - 1

Get(v, x, y) == v[y + 1][x + 1]

Set(v, x, y, value) == [v EXCEPT ![y + 1][x + 1] = value]

Cells(v) == (0 .. dimX(v) - 1) \X (0 .. dimY(v) - 1)

-----------------------------------------------------------------------------
(* FloodFill.                                                              *)

\* Four steps of which the last is diagonal.
deltasDiagonal == << <<-1, 0>>, <<1, 0>>, <<0, -1>>, <<1, 1>> >>

deltas == << <<-1, 0>>, <<1, 0>>, <<0, -1>>, <<0, 1>> >>

Null == <<0, -1>>

\* A floor of the squared distances four times smaller.
minDistanceSqSmaller == <<1, 4194304>>

minDistanceSq == <<1, 1048576>>

\* A thickness that is not squared.
thicknessLinear(c) == c.thickness

thicknessSq(c) == RMul(c.thickness, c.thickness)

cappingRadiusSq(c) ==
    LET cappingRadius == RMul(c.cappingRadiusRatio, c.thickness)
    IN  RMul(cappingRadius, cappingRadius)

fillingValue(c) ==
    IF c.op = "fillFrom"
    THEN RMax(c.value, RMul(thicknessSq(c), Num(1048576)))
    ELSE Num(0)

\* A flood predicate that also accepts a value equal to the threshold.
canFloodInclusive(c, fieldValue) ==
    IF c.op = "fillFrom" THEN RLe(fieldValue, c.value)
    ELSE RLe(c.value, fieldValue)

canFlood(c, fieldValue) ==
    IF c.op = "fillFrom" THEN RLt(fieldValue, c.value)
    ELSE RGt(fieldValue, c.value)

\* A contour value that is not capped by the capping radius.
getContourValueUncapped(c, fieldValue, distanceSq) ==
    IF c.op = "fillFrom"
    THEN LET value == RDiv(thicknessSq(c), distanceSq)
         IN  IF RLt(fieldValue, value) THEN value ELSE Null
    ELSE LET value == RDiv(distanceSq, thicknessSq(c))
         IN  IF RGt(fieldValue, value) THEN value ELSE Null

\* A contour value that a cell already holding it takes again.
getContourValueInclusive(c, fieldValue, distanceSq) ==
    IF c.op = "fillFrom"
    THEN LET value == RDiv(thicknessSq(c), distanceSq)
         IN  IF RLe(fieldValue, value) /\ RLt(distanceSq, cappingRadiusSq(c))
             THEN value ELSE Null
    ELSE LET value == RDiv(distanceSq, thicknessSq(c))
         IN  IF RLe(value, fieldValue) /\ RLt(distanceSq, cappingRadiusSq(c))
             THEN value ELSE Null

getContourValue(c, fieldValue, distanceSq) ==
    IF c.op = "fillFrom"
    THEN LET value == RDiv(thicknessSq(c), distanceSq)
         IN  IF RLt(fieldValue, value) /\ RLt(distanceSq, cappingRadiusSq(c))
             THEN value ELSE Null
    ELSE LET value == RDiv(distanceSq, thicknessSq(c))
         IN  IF RGt(fieldValue, value) /\ RLt(distanceSq, cappingRadiusSq(c))
             THEN value ELSE Null

(* Stock: objects are told apart by the order of their creation.           *)

\* What a run of getOrCreate calls works on: the elements of the stock,
\* the number of objects created so far and the objects handed out.
Taking(elements, count) == [elements |-> elements, created |-> count, taken |-> <<>>]

\* A getOrCreate that hands out the last element and leaves it in the
\* stock.
getOrCreateKeeping(t) ==
    IF t.elements # <<>>
    THEN [t EXCEPT !.taken = Append(t.taken, t.elements[Len(t.elements)])]
    ELSE [t EXCEPT !.created = t.created + 1,
                   !.taken = Append(t.taken, t.created + 1)]

\* Stock.getOrCreate: the last element of the stock, or a new object if
\* the stock is empty.
getOrCreate(t) ==
    IF t.elements # <<>>
    THEN [t EXCEPT !.elements = SubSeq(t.elements, 1, Len(t.elements) - 1),
                   !.taken = Append(t.taken, t.elements[Len(t.elements)])]
    ELSE [t EXCEPT !.created = t.created + 1,
                   !.taken = Append(t.taken, t.created + 1)]

RECURSIVE getOrCreateTimes(_, _)
getOrCreateTimes(t, n) ==
    IF n <= 0 THEN t ELSE getOrCreateTimes(getOrCreate(t), n - 1)

\* Stock.stock
stock(elements, element) == Append(elements, element)

\* The part of the state a flood or shading step works on.
Work(v, fs, ncs) == [values |-> v, floodStack |-> fs, nextContourStack |-> ncs]

checkAnAddContourNode(c, w, nodeX, nodeY, originX, originY) ==
    IF ~isInside(w.values, nodeX, nodeY) THEN w
    ELSE LET deltaX == nodeX - originX
             deltaY == nodeY - originY
             distanceSq == RMax(minDistanceSq, Num(deltaX * deltaX + deltaY * deltaY))
             value == getContourValue(c, Get(w.values, nodeX, nodeY), distanceSq)
         IN  IF value # Null
             THEN [w EXCEPT
                     !.values = Set(w.values, nodeX, nodeY, value),
                     !.nextContourStack = Append(w.nextContourStack,
                         [x |-> nodeX, y |-> nodeY, originX |-> originX,
                          originY |-> originY, value |-> value])]
             ELSE w

\* One neighbour of the flood loop's body.
floodNeighbor(c, w, x, y, delta) ==
    LET neighborX == x + delta[1]
        neighborY == y + delta[2]
    IN  IF ~isInside(w.values, neighborX, neighborY) THEN w
        ELSE IF canFlood(c, Get(w.values, neighborX, neighborY))
             THEN [w EXCEPT !.floodStack =
                      Append(w.floodStack, [x |-> neighborX, y |-> neighborY])]
             ELSE checkAnAddContourNode(c, w, neighborX, neighborY, x, y)

\* The only element of a one-element set: binds the value of an
\* intermediate state once.
The(S) == CHOOSE w \in S : TRUE

\* One iteration of the flood loop: pop, set, visit the four neighbours
\* in the order of deltas.
floodIteration(c, w) ==
    LET node == w.floodStack[Len(w.floodStack)]
        x == node.x
        y == node.y
        popped == [w EXCEPT
                     !.floodStack = SubSeq(w.floodStack, 1, Len(w.floodStack) - 1),
                     !.values = Set(w.values, x, y, fillingValue(c))]
    IN  The({floodNeighbor(c, w3, x, y, deltas[4]) :
          w3 \in {floodNeighbor(c, w2, x, y, deltas[3]) :
            w2 \in {floodNeighbor(c, w1, x, y, deltas[2]) :
              w1 \in {floodNeighbor(c, w0, x, y, deltas[1]) :
                w0 \in {popped}}}}})

\* The nodes a step has pushed on the next layer.
queued(before, w) ==
    SubSeq(w.nextContourStack, Len(before) + 1, Len(w.nextContourStack))

\* A stale test that also takes a node whose value the grid still holds.
isStaleInclusive(v, node) == RLe(node.value, Get(v, node.x, node.y))

\* The stale test of the shading loop.
isStale(v, node) == RGt(Get(v, node.x, node.y), node.value)

\* One iteration of the inner shading loop on a popped node.
shadeIteration(c, w, node) ==
    IF isStale(w.values, node) THEN w
    ELSE LET visit(u, i) ==
                 checkAnAddContourNode(c, u, node.x + deltas[i][1],
                     node.y + deltas[i][2], node.originX, node.originY)
         IN  The({visit(w3, 4) :
               w3 \in {visit(w2, 3) :
                 w2 \in {visit(w1, 2) :
                   w1 \in {visit(w0, 1) : w0 \in {w}}}}})

-----------------------------------------------------------------------------
(* Inputs of the flood operations.                                         *)

CellValues == {Num(n) : n \in -MaxCell .. MaxCell}

Grids == [1 .. DimY -> [1 .. DimX -> CellValues]]

\* The grid of the test 'can fill a square': a hollow diamond of 1s.
Fixture ==
    LET row(s) == [i \in 1 .. 8 |-> Num(s[i])]
    IN  << row(<<0, 0, 0, 0, 0, 0, 0, 0>>),
           row(<<0, 0, 1, 1, 1, 1, 0, 0>>),
           row(<<0, 1, 0, 0, 0, 0, 1, 0>>),
           row(<<0, 1, 0, 0, 0, 0, 1, 0>>),
           row(<<0, 1, 0, 0, 0, 0, 1, 0>>),
           row(<<0, 1, 0, 0, 0, 0, 1, 0>>),
           row(<<0, 0, 1, 1, 1, 1, 0, 0>>),
           row(<<0, 0, 0, 0, 0, 0, 0, 0>>) >>

\* Origins: cell centres, points that round to a cell and points outside.
OriginXs(v) == {Num(-1), Num(0), <<1, 2>>}
                   \cup {Num(dimX(v) - 1), <<2 * dimX(v) - 1, 2>>}
OriginYs(v) == {Num(0), <<2 * dimY(v) - 3, 2>>}

Thresholds == CellValues
Thicknesses == {Num(n) : n \in 0 .. MaxThickness}
Ratios == {Num(n) : n \in 1 .. MaxRatio}

\* Grids of high values: the cells above 1 are the ones unfillFrom floods
\* against the threshold 1, among them the first row and the first column,
\* and a cell holding 1 is above the contour values of a wide thickness up
\* to a distance of two cells.
HighGrids ==
    {[row \in 1 .. ShadeDimY |-> [col \in 1 .. ShadeDimX |->
         IF row = 1 \/ col = 1 THEN Num(HighCell) ELSE inner[row - 1][col - 1]]] :
       inner \in [1 .. ShadeDimY - 1 ->
                    [1 .. ShadeDimX - 1 -> {Num(n) : n \in 1 .. HighCell}]]}

\* The arguments tried on a grid; the fixture is flooded from its centre
\* against the threshold 1, as the test does, and a grid of high values
\* is shaded with a wide thickness.
FloodCalls(v, op) ==
    IF v = Fixture
    THEN {[op |-> op, originX |-> Num(4), originY |-> Num(4), value |-> Num(1),
           thickness |-> t, cappingRadiusRatio |-> r] :
             t \in Thicknesses, r \in Ratios}
    ELSE IF v \in HighGrids
    THEN {[op |-> op, originX |-> ox, originY |-> oy, value |-> vm,
           thickness |-> Num(WideThickness), cappingRadiusRatio |-> r] :
             ox \in OriginXs(v), oy \in OriginYs(v),
             vm \in {Num(n) : n \in 1 .. HighCell}, r \in Ratios}
    ELSE {[op |-> op, originX |-> ox, originY |-> oy, value |-> vm,
           thickness |-> t, cappingRadiusRatio |-> r] :
             ox \in OriginXs(v), oy \in OriginYs(v), vm \in Thresholds,
             t \in Thicknesses, r \in Ratios}

NoCall == [op |-> "none", originX |-> Num(0), originY |-> Num(0),
           value |-> Num(0), thickness |-> Num(0), cappingRadiusRatio |-> Num(0)]

-----------------------------------------------------------------------------
(* The flood operations as a state machine.                                *)

InitWith(grids) ==
    /\ values \in grids
    /\ values0 = values
    /\ pc = "idle"
    /\ call = NoCall
    /\ floodStack = <<>>
    /\ contourStack = <<>>
    /\ nextContourStack = <<>>
    /\ flooded = {}
    /\ scanned = {}
    /\ returned = Null
    /\ admissions = <<>>
    /\ nodeStock = <<>>
    /\ contourNodeStock = <<>>
    /\ floodNodes = <<>>
    /\ contourNodes = <<>>
    /\ nextContourNodes = <<>>
    /\ created = <<0, 0>>
    /\ calls = 0
    /\ shapePainter = <<>>
    /\ squareX = 0
    /\ squareY = 0
    /\ first15SquareX = -1
    /\ workingPoint = <<Num(0), Num(0)>>
    /\ firstPainter = <<>>
    /\ runs = 0

Init == InitWith(Grids \cup {Fixture})

\* fillFrom / unfillFrom up to the flood loop of floodFrom.
floodFrom(c) ==
    LET x == Round(c.originX)
        y == Round(c.originY)
    IN  /\ call' = c
        /\ values0' = values
        /\ flooded' = {}
        /\ contourStack' = <<>>
        /\ nextContourStack' = <<>>
        /\ floodStack' =
              IF isInside(values, x, y) /\ canFlood(c, Get(values, x, y))
              THEN <<[x |-> x, y |-> y]>> ELSE <<>>
        /\ pc' = "flood"
        /\ admissions' = <<>>
        /\ \E t \in {getOrCreateTimes(Taking(nodeStock, created[1]),
                        IF isInside(values, x, y) /\ canFlood(c, Get(values, x, y))
                        THEN 1 ELSE 0)} :
              /\ nodeStock' = t.elements
              /\ floodNodes' = t.taken
              /\ created' = <<t.created, created[2]>>
        /\ contourNodes' = <<>>
        /\ nextContourNodes' = <<>>
        /\ calls' = calls + 1
        /\ UNCHANGED <<values, scanned, returned, contourNodeStock, marchVars>>

fillFrom ==
    /\ pc = "idle"
    /\ \E c \in FloodCalls(values, "fillFrom") : floodFrom(c)

unfillFrom ==
    /\ pc = "idle"
    /\ \E c \in FloodCalls(values, "unfillFrom") : floodFrom(c)

\* The objects of one iteration of the flood loop: the node at the index
\* leaves the stack, every push takes its object from a stock, and the
\* node is stocked at the end of the iteration.
floodPools(index, w) ==
    \E t \in {getOrCreateTimes(Taking(nodeStock, created[1]),
                                Len(w.floodStack) - (Len(floodStack) - 1))},
       u \in {getOrCreateTimes(Taking(contourNodeStock, created[2]),
                                Len(w.nextContourStack) - Len(nextContourStack))} :
        /\ floodNodes' = SubSeq(floodNodes, 1, index - 1)
                            \o SubSeq(floodNodes, index + 1, Len(floodNodes))
                            \o t.taken
        /\ nodeStock' = stock(t.elements, floodNodes[index])
        /\ nextContourNodes' = nextContourNodes \o u.taken
        /\ contourNodeStock' = u.elements
        /\ created' = <<t.created, u.created>>

floodLoop ==
    /\ pc = "flood"
    /\ floodStack # <<>>
    /\ \E node \in {floodStack[Len(floodStack)]},
          w \in {floodIteration(call, Work(values, floodStack, nextContourStack))} :
           /\ Len(w.floodStack) <= MaxStack
           /\ values' = w.values
           /\ floodStack' = w.floodStack
           /\ nextContourStack' = w.nextContourStack
           /\ flooded' = flooded \cup {<<node.x, node.y>>}
           /\ admissions' = admissions \o queued(nextContourStack, w)
           /\ floodPools(Len(floodNodes), w)
    /\ UNCHANGED <<pc, call, contourStack, contourNodes, values0, scanned, returned,
                   calls, marchVars>>

\* The flood loop is over: shadeContour begins by swapping the two layers.
shadeContour ==
    /\ pc = "flood"
    /\ floodStack = <<>>
    /\ contourStack' = nextContourStack
    /\ nextContourStack' = contourStack
    /\ pc' = IF nextContourStack = <<>> THEN "done" ELSE "shade"
    /\ contourNodes' = nextContourNodes
    /\ nextContourNodes' = contourNodes
    /\ UNCHANGED <<values, call, floodStack, values0, flooded, admissions, scanned,
                   returned, nodeStock, contourNodeStock, floodNodes, created, calls,
                   marchVars>>

\* The objects of one iteration of the inner shading loop: the node
\* leaves the layer; a node that is skipped is not stocked; otherwise every
\* push takes its object from the stock and the node is stocked at the end.
shadePools(node, w) ==
    \E u \in {getOrCreateTimes(Taking(contourNodeStock, created[2]),
                                Len(w.nextContourStack) - Len(nextContourStack))} :
        /\ contourNodes' = SubSeq(contourNodes, 1, Len(contourNodes) - 1)
        /\ nextContourNodes' = nextContourNodes \o u.taken
        /\ contourNodeStock' =
              IF isStale(values, node) THEN u.elements
              ELSE stock(u.elements, contourNodes[Len(contourNodes)])
        /\ created' = <<created[1], u.created>>

shadeLoop ==
    /\ pc = "shade"
    /\ contourStack # <<>>
    /\ \E w \in {shadeIteration(call, Work(values, floodStack, nextContourStack),
                                 contourStack[Len(contourStack)])} :
           /\ values' = w.values
           /\ nextContourStack' = w.nextContourStack
           /\ contourStack' = SubSeq(contourStack, 1, Len(contourStack) - 1)
           /\ admissions' = admissions \o queued(nextContourStack, w)
           /\ shadePools(contourStack[Len(contourStack)], w)
    /\ UNCHANGED <<pc, call, floodStack, values0, flooded, scanned, returned,
                   nodeStock, floodNodes, calls, marchVars>>

\* The current layer is empty: swap the layers and test the outer loop.
shadeSwap ==
    /\ pc = "shade"
    /\ contourStack = <<>>
    /\ contourStack' = nextContourStack
    /\ nextContourStack' = contourStack
    /\ pc' = IF nextContourStack = <<>> THEN "done" ELSE "shade"
    /\ contourNodes' = nextContourNodes
    /\ nextContourNodes' = contourNodes
    /\ UNCHANGED <<values, call, floodStack, values0, flooded, admissions, scanned,
                   returned, nodeStock, contourNodeStock, floodNodes, created, calls,
                   marchVars>>

Next ==
    \/ fillFrom
    \/ unfillFrom
    \/ floodLoop
    \/ shadeContour
    \/ shadeLoop
    \/ shadeSwap

Spec == Init /\ [][Next]_vars

-----------------------------------------------------------------------------
(* What the flood operations are expected to do.                           *)

\* The cells of the grid that share a side with the cell.
Neighbours(v, cell) ==
    {n \in Cells(v) : AbsInt(n[1] - cell[1]) + AbsInt(n[2] - cell[2]) = 1}

RECURSIVE Reach(_, _, _)
Reach(v, ok, S) ==
    LET T == S \cup {n \in ok : \E cell \in S : n \in Neighbours(v, cell)}
    IN  IF T = S THEN S ELSE Reach(v, ok, T)

\* The 4-connected component of the rounded origin inside the cells of v
\* whose value is below the threshold; empty when the origin is outside
\* the grid or not below the threshold.
Below(v, c) == {cell \in Cells(v) : RLt(Get(v, cell[1], cell[2]), c.value)}

Component(v, c) ==
    LET o == <<Round(c.originX), Round(c.originY)>>
    IN  IF o \in Below(v, c) THEN Reach(v, Below(v, c), {o}) ELSE {}

FillValue(c) == RMax(c.value, RMul(RMul(c.thickness, c.thickness), Num(1048576)))

FillDone == pc = "done" /\ call.op = "fillFrom"

\* C1: when fillFrom returns, the cells the flood has set are exactly the
\* 4-connected component of the rounded origin among the cells whose value
\* was below valueMax, they hold max(valueMax, thickness^2 * 2^20), no other
\* cell was given that value, with thickness 0 every other cell keeps its
\* value, and an origin outside the grid or not below valueMax leaves the
\* whole grid unchanged.
C1_FillIsComponent ==
    FillDone =>
        LET comp == Component(values0, call)
        IN  /\ flooded = comp
            /\ \A cell \in comp : Get(values, cell[1], cell[2]) = FillValue(call)
            /\ \A cell \in Cells(values) \ comp :
                  \/ Get(values, cell[1], cell[2]) = Get(values0, cell[1], cell[2])
                  \/ /\ call.thickness # Num(0)
                     /\ Get(values, cell[1], cell[2]) # FillValue(call)
            /\ comp = {} => values = values0

\* The test's case: the 16 cells inside the diamond are filled, and the
\* ring and the 32 outer cells below the threshold are untouched.
C1_Witness ==
    /\ FillDone
    /\ values0 = Fixture
    /\ call.thickness = Num(0)
    /\ Cardinality(flooded) = 16
    /\ Cardinality(Below(values0, call) \ flooded) = 32
    /\ \A cell \in Cells(values) \ flooded :
          Get(values, cell[1], cell[2]) = Get(values0, cell[1], cell[2])

\* The stack bound of the model never stops a fillFrom.
FillNeverCapped ==
    (pc = "flood" /\ call.op = "fillFrom" /\ floodStack # <<>>) =>
        Len(floodIteration(call, Work(values, floodStack, nextContourStack)).floodStack)
            <= MaxStack

\* The model stops a flood whose stack would outgrow MaxStack.
FloodCapped ==
    /\ pc = "flood"
    /\ floodStack # <<>>
    /\ Len(floodIteration(call, Work(values, floodStack, nextContourStack)).floodStack)
          > MaxStack

\* The operations run to completion: every enabled step is taken.
\* Checked on the grids of one row of two cells.
RowGrids == [1 .. 1 -> [1 .. 2 -> CellValues]]

FairSpec == InitWith(RowGrids) /\ [][Next]_vars /\ WF_vars(Next)

\* C2: every call of fillFrom and of unfillFrom terminates: once the flood
\* has begun, the call eventually returns with the flood stack and both
\* wavefront layers empty (runs the model's stack bound cuts short apart).
C2_Terminates ==
    (pc = "flood") ~>
        \/ pc = "done" /\ floodStack = <<>> /\ contourStack = <<>>
                       /\ nextContourStack = <<>>
        \/ FloodCapped

DistSq(a, b) == Num((a[1] - b[1]) * (a[1] - b[1]) + (a[2] - b[2]) * (a[2] - b[2]))

CapSq(c) == RMul(RMul(c.cappingRadiusRatio, c.thickness),
                 RMul(c.cappingRadiusRatio, c.thickness))

\* The flooded cells that have a 4-neighbour that is not flooded.
FloodBoundary == {b \in flooded : Neighbours(values, b) \ flooded # {}}

Modified == {cell \in Cells(values) :
                Get(values, cell[1], cell[2]) # Get(values0, cell[1], cell[2])}

\* C3: after fillFrom, every cell that is not flooded and whose value was
\* changed lies at squared distance < (cappingRatio * thickness)^2 from
\* some cell of the flood boundary.
C3_ShadingWithinCap ==
    FillDone =>
        \A cell \in Modified \ flooded :
            \E b \in FloodBoundary : RLt(DistSq(cell, b), CapSq(call))

\* A fill that shaded a cell and left alone a cell beyond the cap which
\* the falloff of a boundary cell would otherwise have raised.
C3_Witness ==
    /\ FillDone
    /\ Modified \ flooded # {}
    /\ \E cell \in Cells(values) \ (Modified \cup flooded) :
          /\ \A b \in FloodBoundary : ~RLt(DistSq(cell, b), CapSq(call))
          /\ \E b \in FloodBoundary :
                RLt(Get(values0, cell[1], cell[2]),
                    RDiv(RMul(call.thickness, call.thickness), DistSq(cell, b)))

-----------------------------------------------------------------------------
(* ScalarField: the radial merges.                                         *)

getDistanceSq(x1, y1, x2, y2) ==
    LET deltaX == RSub(x2, x1)
        deltaY == RSub(y2, y1)
    IN  RAdd(RMul(deltaX, deltaX), RMul(deltaY, deltaY))

\* A distance to a segment that takes a segment of length 0 for a point
\* at distance 0.
getDistanceSqToSegmentNoGuard(x, y, x1, y1, x2, y2) ==
    LET length2 == getDistanceSq(x1, y1, x2, y2)
    IN  IF length2 = Num(0) THEN length2
        ELSE LET t == RMax(Num(0), RMin(Num(1),
                        RDiv(RAdd(RMul(RSub(x, x1), RSub(x2, x1)),
                                  RMul(RSub(y, y1), RSub(y2, y1))), length2)))
             IN  getDistanceSq(x, y, RAdd(x1, RMul(t, RSub(x2, x1))),
                                     RAdd(y1, RMul(t, RSub(y2, y1))))

getDistanceSqToSegment(x, y, x1, y1, x2, y2) ==
    LET length2 == getDistanceSq(x1, y1, x2, y2)
    IN  IF length2 = Num(0) THEN getDistanceSq(x, y, x1, y1)
        ELSE LET t == RMax(Num(0), RMin(Num(1),
                        RDiv(RAdd(RMul(RSub(x, x1), RSub(x2, x1)),
                                  RMul(RSub(y, y1), RSub(y2, y1))), length2)))
             IN  getDistanceSq(x, y, RAdd(x1, RMul(t, RSub(x2, x1))),
                                     RAdd(y1, RMul(t, RSub(y2, y1))))

\* The merging operations the callers pass.
operation(name, a, b) ==
    CASE name = "overwrite" -> b
      [] name = "max" -> RMax(a, b)
      [] name = "add" -> RAdd(a, b)

IntMax(a, b) == IF a < b THEN b ELSE a
IntMin(a, b) == IF b < a THEN b ELSE a

\* The clamped rectangle a merge scans around [lowX, highX] x [lowY, highY].
scanRectangle(v, lowX, lowY, highX, highY, cappingRadius) ==
    [minX |-> IntMax(0, Floor(RSub(lowX, cappingRadius))),
     minY |-> IntMax(0, Floor(RSub(lowY, cappingRadius))),
     maxX |-> IntMin(dimX(v) - 1, Ceil(RAdd(highX, cappingRadius))),
     maxY |-> IntMin(dimY(v) - 1, Ceil(RAdd(highY, cappingRadius)))]

rectangleCells(r) == (r.minX .. r.maxX) \X (r.minY .. r.maxY)

\* The cells mergeDisk visits.
diskCells(v, c) ==
    LET cappingRadius == RMul(c.cappingRadiusRatio, c.radius)
    IN  rectangleCells(scanRectangle(v, c.centerX, c.centerY,
                                    c.centerX, c.centerY, cappingRadius))

\* A disk value without the floor of the squared distance.
diskValueNoFloor(c, x, y) ==
    RDiv(RMul(c.radius, c.radius),
         getDistanceSq(Num(x), Num(y), c.centerX, c.centerY))

\* The value mergeDisk merges into the cell (x, y).
diskValue(c, x, y) ==
    LET radiusSq == RMul(c.radius, c.radius)
        distanceSq == RMax(minDistanceSq,
                           getDistanceSq(Num(x), Num(y), c.centerX, c.centerY))
    IN  RDiv(radiusSq, distanceSq)

mergeDiskValues(v, c) ==
    [row \in 1 .. dimY(v) |-> [col \in 1 .. dimX(v) |->
        IF <<col - 1, row - 1>> \in diskCells(v, c)
        THEN operation(c.operation, v[row][col], diskValue(c, col - 1, row - 1))
        ELSE v[row][col]]]

\* The cells mergeSegment visits.
segmentCells(v, c) ==
    LET cappingRadius == RMul(c.cappingRadiusRatio, c.thickness)
    IN  rectangleCells(scanRectangle(v, RMin(c.startX, c.endX), RMin(c.startY, c.endY),
                           RMax(c.startX, c.endX), RMax(c.startY, c.endY),
                           cappingRadius))

\* The value mergeSegment merges into the cell (x, y).
segmentValue(c, x, y) ==
    LET thickSq == RMul(c.thickness, c.thickness)
        distanceSq == RMax(minDistanceSq,
                           getDistanceSqToSegment(Num(x), Num(y), c.startX, c.startY,
                                                  c.endX, c.endY))
    IN  RDiv(thickSq, distanceSq)

mergeSegmentValues(v, c) ==
    [row \in 1 .. dimY(v) |-> [col \in 1 .. dimX(v) |->
        IF <<col - 1, row - 1>> \in segmentCells(v, c)
        THEN operation(c.operation, v[row][col], segmentValue(c, col - 1, row - 1))
        ELSE v[row][col]]]

\* Math.log and Math.exp where they are exact: a hill of height 1.
Log(a) == CASE a = Num(1) -> Num(0)
Exp(a) == CASE a = Num(0) -> Num(1)

\* The cells mergeHill visits.
hillCells(v, c) ==
    LET cappingRadius == RMul(c.cappingRadiusRatio, c.radius)
    IN  rectangleCells(scanRectangle(v, c.centerX, c.centerY,
                                    c.centerX, c.centerY, cappingRadius))

\* The value mergeHill merges into the cell (x, y).
hillValue(c, x, y) ==
    LET logHeightDividedByRadiusSq == RDiv(Log(c.height), RMul(c.radius, c.radius))
        opacityMultipliedByHeight == RMul(c.opacity, c.height)
        distanceSq == RMax(minDistanceSq,
                           getDistanceSq(Num(x), Num(y), c.centerX, c.centerY))
    IN  RMul(opacityMultipliedByHeight,
             Exp(RMul(RSub(Num(0), distanceSq), logHeightDividedByRadiusSq)))

mergeHillValues(v, c) ==
    [row \in 1 .. dimY(v) |-> [col \in 1 .. dimX(v) |->
        IF <<col - 1, row - 1>> \in hillCells(v, c)
        THEN operation(c.operation, v[row][col], hillValue(c, col - 1, row - 1))
        ELSE v[row][col]]]

(* Inputs of the merges.                                                   *)

\* Grids with one value in every cell.
MergeGrids == {[row \in 1 .. DimY |-> [col \in 1 .. DimX |-> value]] :
                  value \in CellValues}

\* Coordinates in halves, from one cell before the grid to one cell after.
MergeXs == {Norm(n, 2) : n \in -2 .. 2 * DimX}
MergeYs == {Norm(n, 2) : n \in -2 .. 2 * DimY}
Radii == Thicknesses \cup {<<1, 2>>}
Operations == {"overwrite", "max", "add"}

mergeDisk ==
    /\ pc = "idle"
    /\ \E cx \in MergeXs, cy \in MergeYs, r \in Radii, cr \in Ratios,
          o \in Operations :
          LET c == [op |-> "mergeDisk", centerX |-> cx, centerY |-> cy,
                    radius |-> r, cappingRadiusRatio |-> cr, operation |-> o]
          IN  /\ call' = c
              /\ values' = mergeDiskValues(values, c)
              /\ scanned' = diskCells(values, c)
    /\ values0' = values
    /\ pc' = "done"
    /\ UNCHANGED <<floodVars, returned, marchVars>>

\* The end of a segment: its start, or a grid point.
mergeSegment ==
    /\ pc = "idle"
    /\ \E sx \in MergeXs, sy \in MergeYs, t \in Radii, cr \in Ratios,
          o \in Operations :
       \E ex \in {sx} \cup {Num(n) : n \in -1 .. DimX},
          ey \in {sy} \cup {Num(n) : n \in -1 .. DimY} :
          LET c == [op |-> "mergeSegment", startX |-> sx, startY |-> sy,
                    endX |-> ex, endY |-> ey, thickness |-> t,
                    cappingRadiusRatio |-> cr, operation |-> o]
          IN  /\ call' = c
              /\ values' = mergeSegmentValues(values, c)
              /\ scanned' = segmentCells(values, c)
    /\ values0' = values
    /\ pc' = "done"
    /\ UNCHANGED <<floodVars, returned, marchVars>>

\* Hills of height 1, whose values are exact, with a radius that is not 0.
Heights == {Num(1)}
Opacities == {<<1, 2>>, Num(1)}

mergeHill ==
    /\ pc = "idle"
    /\ \E cx \in MergeXs, cy \in MergeYs, h \in Heights, r \in Radii \ {Num(0)},
          a \in Opacities, cr \in Ratios, o \in Operations :
          LET c == [op |-> "mergeHill", centerX |-> cx, centerY |-> cy,
                    height |-> h, radius |-> r, opacity |-> a,
                    cappingRadiusRatio |-> cr, operation |-> o]
          IN  /\ call' = c
              /\ values' = mergeHillValues(values, c)
              /\ scanned' = hillCells(values, c)
    /\ values0' = values
    /\ pc' = "done"
    /\ UNCHANGED <<floodVars, returned, marchVars>>

MergeNext ==
    \/ mergeDisk
    \/ mergeSegment
    \/ mergeHill

MergeSpec == InitWith(MergeGrids) /\ [][MergeNext]_vars

-----------------------------------------------------------------------------
(* What the merges are expected to do.                                     *)

DiskDone == pc = "done" /\ call.op = "mergeDisk"

CellDistSq(c, cell) == getDistanceSq(Num(cell[1]), Num(cell[2]), c.centerX, c.centerY)

DiskCapSq(c) == RMul(RMul(c.cappingRadiusRatio, c.radius),
                     RMul(c.cappingRadiusRatio, c.radius))

\* C4: after mergeDisk, every cell whose Euclidean distance from the centre
\* is greater than cappingRatio * radius keeps its value, the corners of the
\* scanned square included.
C4_DiskKeepsBeyondCap ==
    DiskDone =>
        \A cell \in Cells(values) :
            RGt(CellDistSq(call, cell), DiskCapSq(call)) =>
                Get(values, cell[1], cell[2]) = Get(values0, cell[1], cell[2])

\* C5, as claimed: with the overwrite operator every scanned cell at squared
\* distance radius^2 holds 1, and a cell on the centre holds the finite
\* value radius^2 * 2^20.
C5_DiskFalloffAsClaimed ==
    (DiskDone /\ call.operation = "overwrite") =>
        \A cell \in scanned :
            /\ CellDistSq(call, cell) = RMul(call.radius, call.radius) =>
                  Get(values, cell[1], cell[2]) = Num(1)
            /\ CellDistSq(call, cell) = Num(0) =>
                  /\ Get(values, cell[1], cell[2]) =
                        RMul(RMul(call.radius, call.radius), Num(1048576))
                  /\ Get(values, cell[1], cell[2])[2] > 0

\* C5, amended: the value at squared distance radius^2 is 1 when the radius
\* is not 0; a cell on the centre holds radius^2 * 2^20, which is finite
\* (and is 0 when the radius is 0).
C5_DiskFalloff ==
    (DiskDone /\ call.operation = "overwrite") =>
        \A cell \in scanned :
            /\ (CellDistSq(call, cell) = RMul(call.radius, call.radius)
                  /\ call.radius # Num(0)) =>
                  Get(values, cell[1], cell[2]) = Num(1)
            /\ CellDistSq(call, cell) = Num(0) =>
                  /\ Get(values, cell[1], cell[2]) =
                        RMul(RMul(call.radius, call.radius), Num(1048576))
                  /\ Get(values, cell[1], cell[2])[2] > 0

\* The corner case of C4: a disk of radius 1 on a grid point, and the value
\* of the diagonal neighbour, at distance sqrt(2), overwritten with 1/2.
C4_CornerOverwritten ==
    /\ DiskDone
    /\ call.operation = "overwrite"
    /\ call.radius = Num(1) /\ call.cappingRadiusRatio = Num(1)
    /\ call.centerX = Num(1) /\ call.centerY = Num(0)
    /\ Get(values0, 0, 1) = Num(0)
    /\ Get(values, 0, 1) = <<1, 2>>

\* An overwriting disk with a cell on its centre and a cell on its radius.
C5_Witness ==
    /\ DiskDone
    /\ call.operation = "overwrite"
    /\ call.radius # Num(0)
    /\ \E cell \in scanned : CellDistSq(call, cell) = Num(0)
    /\ \E cell \in scanned : CellDistSq(call, cell) = RMul(call.radius, call.radius)

\* A disk with the centre and radius of a segment's start and thickness.
DiskOfSegment(c) ==
    [op |-> "mergeDisk", centerX |-> c.startX, centerY |-> c.startY,
     radius |-> c.thickness, cappingRadiusRatio |-> c.cappingRadiusRatio,
     operation |-> c.operation]

DegenerateDone ==
    /\ pc = "done"
    /\ call.op = "mergeSegment"
    /\ call.startX = call.endX
    /\ call.startY = call.endY

\* C6: a segment whose two ends coincide leaves the grid as the disk of the
\* same centre, radius, capping ratio and operation does on the same
\* initial grid: the same cells scanned, the same value in every cell.
C6_DegenerateSegmentIsDisk ==
    DegenerateDone =>
        /\ scanned = diskCells(values0, DiskOfSegment(call))
        /\ values = mergeDiskValues(values0, DiskOfSegment(call))

\* A degenerate segment that changed cells at several distances.
C6_Witness ==
    /\ DegenerateDone
    /\ call.thickness # Num(0)
    /\ Cardinality({Get(values, cell[1], cell[2]) : cell \in scanned}) >= 3
    /\ values # values0

-----------------------------------------------------------------------------
(* MarchingSquares.                                                        *)

South == 0
East == 1
North == 2
West == 3
SouthWest == 4
SouthEast == 5
NorthEast == 6
NorthWest == 7

SouthWestMask == 1
SouthEastMask == 2
NorthEastMask == 4
NorthWestMask == 8

\* A fill table whose case 7 polygon leaves out the south-east corner.
marchingSquaresFillVerticesShort ==
    << <<>>,
       <<South, West, SouthWest>>,
       <<East, South, SouthEast>>,
       <<East, West, SouthWest, SouthEast>>,
       <<North, East, NorthEast>>,
       <<South, SouthWest, West, North, NorthEast, East>>,
       <<South, North, NorthEast, SouthEast>>,
       <<West, North, NorthEast, SouthWest>>,
       <<West, North, NorthWest>>,
       <<North, South, SouthWest, NorthWest>>,
       <<South, West, NorthWest, North, East, SouthEast>>,
       <<North, East, SouthEast, SouthWest, NorthWest>>,
       <<East, West, NorthWest, NorthEast>>,
       <<East, South, SouthWest, NorthWest, NorthEast>>,
       <<South, West, NorthWest, NorthEast, SouthEast>>,
       <<>> >>

\* Indexed by the case + 1.
marchingSquaresFillVertices ==
    << <<>>,
       <<South, West, SouthWest>>,
       <<East, South, SouthEast>>,
       <<East, West, SouthWest, SouthEast>>,
       <<North, East, NorthEast>>,
       <<South, SouthWest, West, North, NorthEast, East>>,
       <<South, North, NorthEast, SouthEast>>,
       <<West, North, NorthEast, SouthEast, SouthWest>>,
       <<West, North, NorthWest>>,
       <<North, South, SouthWest, NorthWest>>,
       <<South, West, NorthWest, North, East, SouthEast>>,
       <<North, East, SouthEast, SouthWest, NorthWest>>,
       <<East, West, NorthWest, NorthEast>>,
       <<East, South, SouthWest, NorthWest, NorthEast>>,
       <<South, West, NorthWest, NorthEast, SouthEast>>,
       <<>> >>

\* Indexed by the case + 1.
marchingSquaresOutlineVertices ==
    << << <<>> >>,
       << <<South, West>> >>,
       << <<East, South>> >>,
       << <<East, West>> >>,
       << <<North, East>> >>,
       << <<East, South>>, <<West, North>> >>,
       << <<South, North>> >>,
       << <<West, North>> >>,
       << <<West, North>> >>,
       << <<North, South>> >>,
       << <<South, West>>, <<North, East>> >>,
       << <<North, East>> >>,
       << <<East, West>> >>,
       << <<East, South>> >>,
       << <<South, West>> >>,
       << <<>> >> >>

getSquareIndex(v, x, y, threshold) ==
    (IF RGt(Get(v, x, y + 1), threshold) THEN SouthWestMask ELSE 0)
    + (IF RGt(Get(v, x + 1, y + 1), threshold) THEN SouthEastMask ELSE 0)
    + (IF RGt(Get(v, x + 1, y), threshold) THEN NorthEastMask ELSE 0)
    + (IF RGt(Get(v, x, y), threshold) THEN NorthWestMask ELSE 0)

\* A mean that weighs each corner by its own distance to the threshold.
betweenXOwnWeights(v, indexX1, indexY1, indexX2, indexY2, threshold) ==
    LET weight1 == RAbs(RSub(Get(v, indexX1, indexY1), threshold))
        weight2 == RAbs(RSub(Get(v, indexX2, indexY2), threshold))
    IN  RDiv(RAdd(RMul(weight1, Num(indexX1)), RMul(weight2, Num(indexX2))),
             RAdd(weight1, weight2))

betweenX(v, indexX1, indexY1, indexX2, indexY2, threshold) ==
    LET weight1 == RAbs(RSub(Get(v, indexX1, indexY1), threshold))
        weight2 == RAbs(RSub(Get(v, indexX2, indexY2), threshold))
    IN  RDiv(RAdd(RMul(weight2, Num(indexX1)), RMul(weight1, Num(indexX2))),
             RAdd(weight1, weight2))

betweenY(v, indexX1, indexY1, indexX2, indexY2, threshold) ==
    LET weight1 == RAbs(RSub(Get(v, indexX1, indexY1), threshold))
        weight2 == RAbs(RSub(Get(v, indexX2, indexY2), threshold))
    IN  RDiv(RAdd(RMul(weight2, Num(indexY1)), RMul(weight1, Num(indexY2))),
             RAdd(weight1, weight2))

\* A calcPoint that writes only the x of the point for the edge markers
\* South and North.
calcPointKeepsY(v, side, indexX, indexY, threshold, point) ==
    CASE side = South ->
            <<betweenX(v, indexX, indexY + 1, indexX + 1, indexY + 1, threshold),
              point[2]>>
      [] side = East ->
            <<Num(indexX + 1),
              betweenY(v, indexX + 1, indexY, indexX + 1, indexY + 1, threshold)>>
      [] side = North ->
            <<betweenX(v, indexX, indexY, indexX + 1, indexY, threshold),
              point[2]>>
      [] side = West ->
            <<Num(indexX),
              betweenY(v, indexX, indexY, indexX, indexY + 1, threshold)>>
      [] side = SouthWest -> <<Num(indexX), Num(indexY + 1)>>
      [] side = SouthEast -> <<Num(indexX + 1), Num(indexY + 1)>>
      [] side = NorthEast -> <<Num(indexX + 1), Num(indexY)>>
      [] side = NorthWest -> <<Num(indexX), Num(indexY)>>
      [] OTHER -> <<Num(0), Num(0)>>

\* The point calcPoint leaves in `point`; a side that is no marker (the
\* first vertex of an empty list) leaves (0, 0).
calcPoint(v, side, indexX, indexY, threshold, point) ==
    CASE side = South ->
            <<betweenX(v, indexX, indexY + 1, indexX + 1, indexY + 1, threshold),
              Num(indexY + 1)>>
      [] side = East ->
            <<Num(indexX + 1),
              betweenY(v, indexX + 1, indexY, indexX + 1, indexY + 1, threshold)>>
      [] side = North ->
            <<betweenX(v, indexX, indexY, indexX + 1, indexY, threshold),
              Num(indexY)>>
      [] side = West ->
            <<Num(indexX),
              betweenY(v, indexX, indexY, indexX, indexY + 1, threshold)>>
      [] side = SouthWest -> <<Num(indexX), Num(indexY + 1)>>
      [] side = SouthEast -> <<Num(indexX + 1), Num(indexY + 1)>>
      [] side = NorthEast -> <<Num(indexX + 1), Num(indexY)>>
      [] side = NorthWest -> <<Num(indexX), Num(indexY)>>
      [] OTHER -> <<Num(0), Num(0)>>

\* The part of the state an extraction step works on.
March(painter, first15, point) ==
    [shapePainter |-> painter, first15SquareX |-> first15, workingPoint |-> point]

undefined == -1

\* beginPath at the first vertex, then lineTo at each of the others.
RECURSIVE tracePath(_, _, _, _, _, _)
tracePath(v, c, vertices, index, cell, m) ==
    IF index > 1 /\ index > Len(vertices) THEN m
    ELSE LET side == IF index <= Len(vertices) THEN vertices[index] ELSE undefined
             point == calcPoint(v, side, cell[1], cell[2], c.threshold, m.workingPoint)
             name == IF index = 1 THEN "beginPath" ELSE "lineTo"
         IN  tracePath(v, c, vertices, index + 1, cell,
                 [m EXCEPT !.workingPoint = point,
                           !.shapePainter = Append(m.shapePainter,
                                                   <<name, point[1], point[2]>>)])

squareIndexOf(v, c, x, y) ==
    IF c.drawUnder THEN 15 - getSquareIndex(v, x, y, c.threshold)
    ELSE getSquareIndex(v, x, y, c.threshold)

\* A run-length encoding that closes a run only at a cell that is not 15.
runLengthNoRowEnd(m, x, y, squareIndex, maxX) ==
    LET first15 == IF m.first15SquareX = -1 /\ squareIndex = 15
                   THEN x ELSE m.first15SquareX
    IN  IF first15 # -1 /\ squareIndex # 15
        THEN [m EXCEPT !.first15SquareX = -1,
                       !.shapePainter = Append(m.shapePainter,
                           <<"drawRectangle", Num(first15), Num(y), Num(x), Num(y + 1)>>)]
        ELSE [m EXCEPT !.first15SquareX = first15]

\* The run-length encoding of fillContour for the cell (x, y).
runLength(m, x, y, squareIndex, maxX) ==
    LET first15 == IF m.first15SquareX = -1 /\ squareIndex = 15
                   THEN x ELSE m.first15SquareX
    IN  IF first15 # -1 /\ squareIndex # 15
        THEN [m EXCEPT !.first15SquareX = -1,
                       !.shapePainter = Append(m.shapePainter,
                           <<"drawRectangle", Num(first15), Num(y), Num(x), Num(y + 1)>>)]
        ELSE IF first15 # -1 /\ x = maxX - 2
        THEN [m EXCEPT !.first15SquareX = -1,
                       !.shapePainter = Append(m.shapePainter,
                           <<"drawRectangle", Num(first15), Num(y), Num(x + 1), Num(y + 1)>>)]
        ELSE [m EXCEPT !.first15SquareX = first15]

\* A test that takes every case but 0 for a case with a polygon.
hasGeometryNot0(squareIndex) == squareIndex # 0

hasGeometry(squareIndex) == squareIndex # 0 /\ squareIndex # 15

Painted(m, call_) == [m EXCEPT !.shapePainter = Append(m.shapePainter, call_)]

\* A loop body that notifies the painter of the cell after the run-length
\* encoding.
fillSquareNotifiesLate(v, c, m, x, y) ==
    LET squareIndex == squareIndexOf(v, c, x, y)
        run == runLength(m, x, y, squareIndex, c.maxX)
        notified == Painted(run, <<"onFilledSquareChange", Num(x), Num(y)>>)
    IN  IF hasGeometry(squareIndex)
        THEN Painted(Painted(tracePath(v, c, marchingSquaresFillVertices[squareIndex + 1],
                                       1, <<x, y>>, notified),
                             <<"closePath">>),
                     <<"endPath", Num(x), Num(y)>>)
        ELSE notified

\* The body of fillContour's inner loop for the cell (x, y).
fillSquare(v, c, m, x, y) ==
    LET squareIndex == squareIndexOf(v, c, x, y)
        notified == Painted(m, <<"onFilledSquareChange", Num(x), Num(y)>>)
    IN  The({ IF hasGeometry(squareIndex)
              THEN The({ Painted(Painted(traced, <<"closePath">>),
                                 <<"endPath", Num(x), Num(y)>>) :
                         traced \in {tracePath(v, c,
                                       marchingSquaresFillVertices[squareIndex + 1],
                                       1, <<x, y>>, run)} })
              ELSE run :
              run \in {runLength(notified, x, y, squareIndex, c.maxX)} })

\* Polylines that are closed before they are ended.
RECURSIVE outlinePathsClosed(_, _, _, _, _, _)
outlinePathsClosed(v, c, polylines, k, cell, m) ==
    IF k > Len(polylines) THEN m
    ELSE outlinePathsClosed(v, c, polylines, k + 1, cell,
            Painted(Painted(tracePath(v, c, polylines[k], 1, cell, m), <<"closePath">>),
                    <<"endPath", Num(cell[1]), Num(cell[2])>>))

\* The polylines of one cell, one open path each.
RECURSIVE outlinePaths(_, _, _, _, _, _)
outlinePaths(v, c, polylines, k, cell, m) ==
    IF k > Len(polylines) THEN m
    ELSE outlinePaths(v, c, polylines, k + 1, cell,
            The({ Painted(traced, <<"endPath", Num(cell[1]), Num(cell[2])>>) :
                  traced \in {tracePath(v, c, polylines[k], 1, cell, m)} }))

\* The body of outlineContour's inner loop for the cell (x, y).
outlineSquare(v, c, m, x, y) ==
    LET squareIndex == squareIndexOf(v, c, x, y)
    IN  IF hasGeometry(squareIndex)
        THEN outlinePaths(v, c, marchingSquaresOutlineVertices[squareIndex + 1],
                          1, <<x, y>>, m)
        ELSE m

(* Inputs of the extractions.                                              *)

Samples == {Num(n) : n \in 0 .. MaxSample}

\* Grids of samples: all grids of DimX x DimY samples and of one cell,
\* and the grids of 0s and 1s with a row of RunLength cells or DimX rows.
ContourGrids ==
    [1 .. DimY -> [1 .. DimX -> Samples]]
    \cup [1 .. 2 -> [1 .. 2 -> Samples]]
    \cup [1 .. 2 -> [1 .. RunLength + 1 -> {Num(0), Num(1)}]]
    \cup [1 .. DimX -> [1 .. DimX -> {Num(0), Num(1)}]]

ContourThresholds == {Num(n) : n \in 0 .. MaxSample - 1}

ContourCalls(v, op) ==
    {[op |-> op, minX |-> a, minY |-> 0, maxX |-> b, maxY |-> dimY(v),
      threshold |-> t, drawUnder |-> u] :
        a \in {0, 1}, b \in {dimX(v) - 1, dimX(v)},
        t \in ContourThresholds, u \in BOOLEAN}

(* The extractions as a state machine.                                     *)

\* The loops begin; a range without cells ends the call at once.
marchBegin(c) ==
    /\ call' = c
    /\ shapePainter' = <<>>
    /\ squareX' = c.minX
    /\ squareY' = c.minY
    /\ first15SquareX' = -1
    /\ pc' = IF c.minY < c.maxY - 1 /\ c.minX < c.maxX - 1 THEN c.op ELSE "done"
    /\ UNCHANGED <<values, values0, floodVars, scanned, returned, workingPoint>>

fillContour ==
    /\ pc = "idle"
    /\ \E c \in ContourCalls(values, "fillContour") : marchBegin(c)
    /\ runs' = 1
    /\ UNCHANGED firstPainter

outlineContour ==
    /\ pc = "idle"
    /\ \E c \in ContourCalls(values, "outlineContour") : marchBegin(c)
    /\ runs' = 1
    /\ UNCHANGED firstPainter

\* The same extraction is called again on the grid as it is.
extractAgain ==
    /\ pc = "done"
    /\ runs < MaxRuns
    /\ marchBegin(call)
    /\ runs' = runs + 1
    /\ firstPainter' = shapePainter

\* After the cell (squareX, squareY): the next cell of the row, the first
\* cell of the next row with a new run, or the end of the call.
marchAdvance ==
    IF squareX + 1 < call.maxX - 1
    THEN /\ squareX' = squareX + 1
         /\ UNCHANGED <<squareY, pc>>
    ELSE /\ squareX' = call.minX
         /\ squareY' = squareY + 1
         /\ pc' = IF squareY + 1 < call.maxY - 1 THEN pc ELSE "done"

fillContourLoop ==
    /\ pc = "fillContour"
    /\ \E m \in {fillSquare(values, call,
                    March(shapePainter, first15SquareX, workingPoint),
                    squareX, squareY)} :
          /\ shapePainter' = m.shapePainter
          /\ workingPoint' = m.workingPoint
          /\ first15SquareX' = IF squareX + 1 < call.maxX - 1
                               THEN m.first15SquareX ELSE -1
    /\ marchAdvance
    /\ UNCHANGED <<values, values0, call, floodVars, scanned, returned,
                   firstPainter, runs>>

outlineContourLoop ==
    /\ pc = "outlineContour"
    /\ \E m \in {outlineSquare(values, call,
                    March(shapePainter, first15SquareX, workingPoint),
                    squareX, squareY)} :
          /\ shapePainter' = m.shapePainter
          /\ workingPoint' = m.workingPoint
    /\ marchAdvance
    /\ UNCHANGED <<values, values0, call, floodVars, scanned, returned, first15SquareX,
                   firstPainter, runs>>

ContourNext ==
    \/ fillContour
    \/ outlineContour
    \/ fillContourLoop
    \/ outlineContourLoop
    \/ extractAgain

ContourSpec == InitWith(ContourGrids) /\ [][ContourNext]_vars

-----------------------------------------------------------------------------
(* Properties of the extractions.                                          *)

Range(sequence) == {sequence[i] : i \in 1 .. Len(sequence)}

Named(log, name) == {i \in 1 .. Len(log) : log[i][1] = name}

\* The calls of a log that draw: all but onFilledSquareChange.
Geometry(log) == SelectSeq(log, LAMBDA e : e[1] # "onFilledSquareChange")

FillContourDone == pc = "done" /\ call.op = "fillContour"

ScannedRows == call.minY .. call.maxY - 2

ScannedColumns == call.minX .. call.maxX - 2

IsCase15(x, y) == squareIndexOf(values, call, x, y) = 15

\* The drawRectangle calls of the log that cover the cell (x, y) with a
\* height of one cell.
Covering(log, x, y) ==
    {i \in Named(log, "drawRectangle") :
        /\ log[i][3] = Num(y) /\ log[i][5] = Num(y + 1)
        /\ RLe(log[i][2], Num(x)) /\ RLt(Num(x), log[i][4])}

\* The rectangle begins and ends where its run of case-15 cells does.
IsMaximalRun(e) ==
    \E y \in ScannedRows, l \in ScannedColumns, r \in ScannedColumns :
        /\ e = <<"drawRectangle", Num(l), Num(y), Num(r + 1), Num(y + 1)>>
        /\ l <= r
        /\ l = call.minX \/ ~IsCase15(l - 1, y)
        /\ r = call.maxX - 2 \/ ~IsCase15(r + 1, y)

\* The run-length encoding over a row of cases, without a grid.
RECURSIVE rowRectangles(_, _, _)
rowRectangles(cases, index, m) ==
    IF index > Len(cases) THEN m.shapePainter
    ELSE rowRectangles(cases, index + 1,
            runLength(m, index - 1, 0, cases[index], Len(cases) + 1))

ExampleRow == <<15, 15, 15, 3, 15, 15>>

\* C7: when fillContour has returned, every case-15 cell (after the
\* drawUnder inversion) of the scanned range is covered by exactly one
\* rectangle and no other cell by any, every rectangle spans a maximal run
\* of case-15 cells of one row (closed by a cell that is not 15 or by the
\* end of the row), and every cell that is neither 0 nor 15 has one
\* polygon; the run-length encoding of the cases 15,15,15,3,15,15 gives one
\* rectangle over the cells 0..2 and one over the cells 4..5, and 3 is a
\* case with a polygon.
C7_RectanglesAreMaximalRuns ==
    /\ FillContourDone =>
        /\ \A y \in ScannedRows : \A x \in ScannedColumns :
              Cardinality(Covering(shapePainter, x, y))
                  = IF IsCase15(x, y) THEN 1 ELSE 0
        /\ \A i \in Named(shapePainter, "drawRectangle") :
              IsMaximalRun(shapePainter[i])
        /\ Cardinality(Named(shapePainter, "closePath"))
              = Cardinality({cell \in ScannedColumns \X ScannedRows :
                    hasGeometry(squareIndexOf(values, call, cell[1], cell[2]))})
    /\ rowRectangles(ExampleRow, 1, March(<<>>, -1, <<Num(0), Num(0)>>))
          = << <<"drawRectangle", Num(0), Num(0), Num(3), Num(1)>>,
               <<"drawRectangle", Num(4), Num(0), Num(6), Num(1)>> >>
    /\ hasGeometry(ExampleRow[4])

\* A row of the cases 15, 9, 6, 15: the first run is closed by the cell
\* that follows it, the second by the end of the row.
C7_Witness ==
    /\ FillContourDone
    /\ dimX(values) = RunLength + 1
    /\ call.minX = 0 /\ call.maxX = RunLength + 1
    /\ [x \in 0 .. 3 |-> squareIndexOf(values, call, x, 0)]
          = [x \in 0 .. 3 |-> <<15, 9, 6, 15>>[x + 1]]
    /\ Geometry(shapePainter)[1]
          = <<"drawRectangle", Num(0), Num(0), Num(1), Num(1)>>
    /\ Geometry(shapePainter)[Len(Geometry(shapePainter))]
          = <<"drawRectangle", Num(3), Num(0), Num(4), Num(1)>>
    /\ Cardinality(Named(shapePainter, "drawRectangle")) = 2

\* fillContour has returned from the one cell of a grid of 2 x 2 samples.
SingleCellDone ==
    /\ FillContourDone
    /\ dimX(values) = 2 /\ dimY(values) = 2
    /\ call.minX = 0 /\ call.maxX = 2

SingleCellCase == squareIndexOf(values, call, 0, 0)

\* C8 as claimed: on a grid of one cell fillContour sends no drawRectangle,
\* beginPath, lineTo, closePath or endPath when the case of the cell is 0
\* or 15.
C8_NoGeometryAsClaimed ==
    SingleCellDone /\ SingleCellCase \in {0, 15}
        => Geometry(shapePainter) = <<>>

\* C8: on a grid of one cell fillContour sends no geometry when the case of
\* the cell is 0; when it is 15 it sends the one rectangle of the cell and
\* no path; every other case sends one closed path and no rectangle.
C8_SingleCellGeometry ==
    SingleCellDone =>
        /\ SingleCellCase = 0 => Geometry(shapePainter) = <<>>
        /\ SingleCellCase = 15 =>
              Geometry(shapePainter)
                  = << <<"drawRectangle", Num(0), Num(0), Num(1), Num(1)>> >>
        /\ SingleCellCase \notin {0, 15} =>
              /\ Named(shapePainter, "drawRectangle") = {}
              /\ Cardinality(Named(shapePainter, "beginPath")) = 1
              /\ Cardinality(Named(shapePainter, "closePath")) = 1

C8_Witness ==
    /\ SingleCellDone
    /\ SingleCellCase = 15
    /\ Named(shapePainter, "drawRectangle") # {}

EdgeMarkers == {South, East, North, West}

CornerMarkers == {SouthWest, SouthEast, NorthEast, NorthWest}

\* The offsets in the cell of the two samples calcPoint interpolates
\* between for an edge marker.
edgeEnds(side) ==
    CASE side = South -> << <<0, 1>>, <<1, 1>> >>
      [] side = East -> << <<1, 0>>, <<1, 1>> >>
      [] side = North -> << <<0, 0>>, <<1, 0>> >>
      [] side = West -> << <<0, 0>>, <<0, 1>> >>

\* The offset in the cell of the point calcPoint gives a corner marker.
cornerOffset(side) ==
    CASE side = SouthWest -> <<0, 1>>
      [] side = SouthEast -> <<1, 1>>
      [] side = NorthEast -> <<1, 0>>
      [] side = NorthWest -> <<0, 0>>

\* The bit getSquareIndex sets for the sample at an offset in the cell.
maskAt(offset) ==
    CASE offset = <<0, 1>> -> SouthWestMask
      [] offset = <<1, 1>> -> SouthEastMask
      [] offset = <<1, 0>> -> NorthEastMask
      [] offset = <<0, 0>> -> NorthWestMask

HasBit(squareIndex, mask) == (squareIndex \div mask) % 2 = 1

fillMarkers(squareIndex) == Range(marchingSquaresFillVertices[squareIndex + 1])

outlineMarkers(squareIndex) ==
    UNION {Range(polyline) :
           polyline \in Range(marchingSquaresOutlineVertices[squareIndex + 1])}

TablesAgree(squareIndex) ==
    /\ fillMarkers(squareIndex) \cap EdgeMarkers = outlineMarkers(squareIndex)
    /\ \A side \in EdgeMarkers :
          side \in fillMarkers(squareIndex)
              <=> HasBit(squareIndex, maskAt(edgeEnds(side)[1]))
                    # HasBit(squareIndex, maskAt(edgeEnds(side)[2]))

SetCorners(squareIndex) ==
    {side \in CornerMarkers : HasBit(squareIndex, maskAt(cornerOffset(side)))}

\* The cases of the cells of the grid an extraction is called on; over the
\* grids of one cell they are the 16 cases.
CellCases ==
    IF call.op \in {"fillContour", "outlineContour"}
    THEN {squareIndexOf(values, call, x, y) :
              x \in 0 .. dimX(values) - 2, y \in 0 .. dimY(values) - 2}
    ELSE {}

\* C9 as claimed: for every case 0..15 the two tables have the same edge
\* markers, an edge marker is in a case exactly when the bits of the two
\* corners at its ends differ, and the corner markers of the fill polygon
\* are the corners whose bit is set.
C9_TablesAsClaimed ==
    \A squareIndex \in CellCases :
        /\ TablesAgree(squareIndex)
        /\ fillMarkers(squareIndex) \cap CornerMarkers = SetCorners(squareIndex)

\* C9: for every case 0..15 the two tables have the same edge markers and
\* an edge marker is in a case exactly when the bits of the two corners at
\* its ends differ; for the cases 0..14 the corner markers of the fill
\* polygon are the corners whose bit is set, and the case 15, whose four
\* bits are set, has an empty fill polygon.
C9_TablesAgree ==
    \A squareIndex \in CellCases :
        /\ TablesAgree(squareIndex)
        /\ squareIndex # 15 =>
              fillMarkers(squareIndex) \cap CornerMarkers = SetCorners(squareIndex)
        /\ squareIndex = 15 =>
              fillMarkers(squareIndex) = {} /\ SetCorners(squareIndex) = CornerMarkers

\* The polygon of a saddle cell has been sent: six points, one per marker
\* of the case in the fill table.
C9_Witness ==
    /\ SingleCellDone
    /\ SingleCellCase = 5
    /\ Cardinality(Named(shapePainter, "beginPath") \cup Named(shapePainter, "lineTo"))
          = Len(marchingSquaresFillVertices[6])
    /\ Len(marchingSquaresFillVertices[6]) = 6

\* C10: fillContour and outlineContour leave the grid as it was, and when
\* the same call has returned a second time on that grid the painter has
\* received the very calls of the first time, in the same order and with
\* the same arguments.
C10_PureAndRepeatable ==
    /\ call.op \in {"fillContour", "outlineContour"} => values = values0
    /\ pc = "done" /\ runs >= 2 => shapePainter = firstPainter

\* A second extraction has returned after sending paths.
C10_Witness ==
    /\ pc = "done"
    /\ runs = 2
    /\ values = values0
    /\ shapePainter = firstPainter
    /\ Named(shapePainter, "lineTo") # {}

-----------------------------------------------------------------------------
(* ScalarField.extrapolate.                                                *)

\* What extrapolate returns: a value, or the mean of the four vertex values
\* weighted by the inverse of their distance to the point.  The distances
\* are square roots, so the mean is kept as its terms <<value, distance
\* squared>>, in the order the loops add them.
Returns(value, terms) == [value |-> value, terms |-> terms]

\* The vertices of the cell (sx, sy) in the order of the two loops.
cellVertices(sx, sy) ==
    << <<sx, sy>>, <<sx, sy + 1>>, <<sx + 1, sy>>, <<sx + 1, sy + 1>> >>

\* dx * dx + dy * dy: the square of Math.hypot(dx, dy).
vertexDistanceSq(vertex, x, y) ==
    RAdd(RMul(RSub(Num(vertex[1]), x), RSub(Num(vertex[1]), x)),
         RMul(RSub(Num(vertex[2]), y), RSub(Num(vertex[2]), y)))

weighedTerms(v, vertices, x, y) ==
    [i \in 1 .. 4 |-> <<Get(v, vertices[i][1], vertices[i][2]),
                        vertexDistanceSq(vertices[i], x, y)>>]

\* An extrapolate without the test dx === 0 && dy === 0.
extrapolateAlwaysMean(v, x, y) ==
    LET sx == Floor(x)
        sy == Floor(y)
    IN  IF sx < 0 \/ sy < 0 \/ sx >= dimX(v) - 1 \/ sy >= dimY(v) - 1
        THEN Returns(Num(0), <<>>)
        ELSE Returns(Null, weighedTerms(v, cellVertices(sx, sy), x, y))

extrapolateValue(v, x, y) ==
    LET sx == Floor(x)
        sy == Floor(y)
        vertices == cellVertices(sx, sy)
        onVertex == {i \in 1 .. 4 : vertexDistanceSq(vertices[i], x, y) = Num(0)}
    IN  IF sx < 0 \/ sy < 0 \/ sx >= dimX(v) - 1 \/ sy >= dimY(v) - 1
        THEN Returns(Num(0), <<>>)
        ELSE IF onVertex # {}
        THEN LET i == CHOOSE i \in onVertex : \A j \in onVertex : i <= j
             IN  Returns(Get(v, vertices[i][1], vertices[i][2]), <<>>)
        ELSE Returns(Null, weighedTerms(v, vertices, x, y))

\* Query points: the vertices and the half-way points of the grid and of
\* the ring of cells around it.
ExtrapolateXs(v) == {Norm(n, 2) : n \in -2 .. 2 * dimX(v)}
ExtrapolateYs(v) == {Norm(n, 2) : n \in -2 .. 2 * dimY(v)}

extrapolate ==
    /\ pc = "idle"
    /\ \E x \in ExtrapolateXs(values), y \in ExtrapolateYs(values) :
          /\ call' = [op |-> "extrapolate", x |-> x, y |-> y]
          /\ returned' = extrapolateValue(values, x, y)
    /\ pc' = "done"
    /\ UNCHANGED <<values, values0, floodVars, scanned, marchVars>>

ReadNext == extrapolate

ReadSpec == InitWith(Grids) /\ [][ReadNext]_vars

ExtrapolateDone == pc = "done" /\ call.op = "extrapolate"

IsInteger(a) == a[2] = 1

\* C11 as claimed: extrapolate(x, y) returns get(x, y) for every integer point of the
\* grid, 0 <= x <= width - 1 and 0 <= y <= height - 1, and returns 0 for
\* every point whose cell (floor(x), floor(y)) is outside
\* [0, width - 2] x [0, height - 2].
C11_ExtrapolateAsClaimed ==
    ExtrapolateDone =>
        /\ ( /\ IsInteger(call.x) /\ IsInteger(call.y)
             /\ isInside(values, call.x[1], call.y[1]) )
              => returned.value = Get(values, call.x[1], call.y[1])
        /\ ( \/ Floor(call.x) \notin 0 .. dimX(values) - 2
             \/ Floor(call.y) \notin 0 .. dimY(values) - 2 )
              => returned.value = Num(0)

\* C11: extrapolate(x, y) returns get(x, y) at the integer points whose
\* cell (floor(x), floor(y)) is inside [0, width - 2] x [0, height - 2],
\* 0 at the points whose cell is outside, the vertices of the last column
\* and of the last row among them, and a weighted mean of the four vertices
\* of the cell elsewhere.
C11_ExtrapolateVertexOrZero ==
    ExtrapolateDone =>
        LET inner == /\ Floor(call.x) \in 0 .. dimX(values) - 2
                     /\ Floor(call.y) \in 0 .. dimY(values) - 2
        IN  /\ ~inner => returned = Returns(Num(0), <<>>)
            /\ inner /\ IsInteger(call.x) /\ IsInteger(call.y)
                  => returned = Returns(Get(values, call.x[1], call.y[1]), <<>>)
            /\ inner /\ ~(IsInteger(call.x) /\ IsInteger(call.y))
                  => returned.value = Null /\ Len(returned.terms) = 4

\* A vertex inside the grid returns the 1 it holds.
C11_Witness ==
    /\ ExtrapolateDone
    /\ call.x = Num(1) /\ call.y = Num(0)
    /\ Get(values, 1, 0) = Num(1)
    /\ returned = Returns(Num(1), <<>>)

\* A vertex of the last column that holds 1: extrapolate returns 0 there.
BorderVertexReturnsZero ==
    /\ ExtrapolateDone
    /\ call.x = Num(dimX(values) - 1) /\ call.y = Num(0)
    /\ Get(values, dimX(values) - 1, 0) = Num(1)
    /\ returned.value = Num(0)

-----------------------------------------------------------------------------
(* unfillFrom.                                                             *)

Above(v, c) == {cell \in Cells(v) : RGt(Get(v, cell[1], cell[2]), c.value)}

\* The 4-connected component of the rounded origin inside the cells of v
\* whose value is above the threshold.
ComponentAbove(v, c) ==
    LET o == <<Round(c.originX), Round(c.originY)>>
    IN  IF o \in Above(v, c) THEN Reach(v, Above(v, c), {o}) ELSE {}

-----------------------------------------------------------------------------
(* The merges and the bounds of the grid.                                  *)

MergeDone == pc = "done" /\ call.op \in {"mergeDisk", "mergeSegment", "mergeHill"}

\* The box around the primitive of a merge: its centre or its two ends.
PrimitiveBox(c) ==
    IF c.op = "mergeSegment"
    THEN [lowX |-> RMin(c.startX, c.endX), lowY |-> RMin(c.startY, c.endY),
          highX |-> RMax(c.startX, c.endX), highY |-> RMax(c.startY, c.endY)]
    ELSE [lowX |-> c.centerX, lowY |-> c.centerY,
          highX |-> c.centerX, highY |-> c.centerY]

MergeCap(c) ==
    RMul(c.cappingRadiusRatio, IF c.op = "mergeSegment" THEN c.thickness ELSE c.radius)

\* The primitive grown by its capping radius has no point in the grid
\* [0, width - 1] x [0, height - 1]: it lies beyond one side of it.
FootprintOutside(v, c) ==
    LET box == PrimitiveBox(c)
        cap == MergeCap(c)
    IN  \/ RLt(RAdd(box.highX, cap), Num(0))
        \/ RLt(RAdd(box.highY, cap), Num(0))
        \/ RGt(RSub(box.lowX, cap), Num(dimX(v) - 1))
        \/ RGt(RSub(box.lowY, cap), Num(dimY(v) - 1))

\* The cells visited are cells of the grid and the others keep their value.
MergeScanClamped ==
    MergeDone =>
        /\ scanned \subseteq Cells(values)
        /\ \A cell \in Cells(values) \ scanned :
              Get(values, cell[1], cell[2]) = Get(values0, cell[1], cell[2])

\* C13: mergeDisk, mergeSegment and mergeHill visit only cells of the grid,
\* every cell outside the clamped rectangle they scan keeps its value, and
\* a primitive whose capped footprint lies entirely outside the grid
\* changes no cell.
C13_MergesStayInGrid ==
    /\ MergeScanClamped
    /\ MergeDone /\ FootprintOutside(values0, call) => values = values0

\* A disk whose capped footprint ends short of the grid has changed a cell
\* of the first column.
C13_OutsideDiskChangesCell ==
    /\ pc = "done" /\ call.op = "mergeDisk"
    /\ call.centerX = Num(-1) /\ call.radius = <<1, 2>>
    /\ call.cappingRadiusRatio = Num(1)
    /\ FootprintOutside(values0, call)
    /\ \E cell \in scanned : Get(values, cell[1], cell[2]) # Get(values0, cell[1], cell[2])

-----------------------------------------------------------------------------
(* fillFrom and the disks of its filled area.                              *)

\* The greatest number of a set of numbers.
Greatest(S) == CHOOSE m \in S : \A o \in S : RLe(o, m)

\* What merging with max one disk of radius thickness, capped at
\* cappingRatio * thickness, centred on each flooded cell leaves in a cell
\* that is not flooded.
DiskShade(c, cell) ==
    Greatest({Get(values0, cell[1], cell[2])}
             \cup {RDiv(thicknessSq(c), DistSq(cell, f)) :
                     f \in {g \in flooded : RLt(DistSq(cell, g), CapSq(c))}})

\* C14: after fillFrom every cell that is not flooded holds the maximum of
\* its previous value and of thickness^2 / d2 over the flooded cells at
\* squared distance d2 < (cappingRatio * thickness)^2.
C14_FillIsDisks ==
    FillDone =>
        \A cell \in Cells(values) \ flooded :
            Get(values, cell[1], cell[2]) = DiskShade(call, cell)

\* What holds of the shading of fillFrom: a cell that is not flooded never
\* falls below its previous value and never exceeds what the disks give.
FillWithinDisks ==
    FillDone =>
        \A cell \in Cells(values) \ flooded :
            /\ RLe(Get(values0, cell[1], cell[2]), Get(values, cell[1], cell[2]))
            /\ RLe(Get(values, cell[1], cell[2]), DiskShade(call, cell))

\* A cell within the cap of a flooded cell is left below the value of its
\* disk: every path of the wave to it goes through cells that already hold
\* more than the wave brings.
C14_WaveBlocked ==
    /\ FillDone
    /\ \E cell \in Cells(values) \ flooded :
          /\ RLt(Get(values, cell[1], cell[2]), DiskShade(call, cell))
          /\ Get(values, cell[1], cell[2]) = Get(values0, cell[1], cell[2])
          /\ \A n \in Neighbours(values, cell) :
                n \notin flooded /\ Get(values, n[1], n[2]) = Get(values0, n[1], n[2])

-----------------------------------------------------------------------------
(* The order of the calls of the extractions.                              *)

\* The cells of [minX, maxX - 1) x [minY, maxY - 1), row after row.
RowMajor(c) ==
    LET width == IF c.maxX - 1 > c.minX THEN c.maxX - 1 - c.minX ELSE 0
        height == IF c.maxY - 1 > c.minY THEN c.maxY - 1 - c.minY ELSE 0
    IN  [k \in 1 .. width * height |->
            <<c.minX + ((k - 1) % width), c.minY + ((k - 1) \div width)>>]

\* The calls of the log from the k-th call of the given name up to the
\* next one of that name, or up to the end of the log.
Block(log, name, k) ==
    LET starts == Named(log, name)
        first == CHOOSE i \in starts : Cardinality({j \in starts : j <= i}) = k
        later == {j \in starts : j > first}
        last == IF later = {} THEN Len(log)
                ELSE (CHOOSE j \in later : \A o \in later : j <= o) - 1
    IN  SubSeq(log, first, last)

Names(log) == [i \in 1 .. Len(log) |-> log[i][1]]

\* The names of the calls of one closed path of n points.
ClosedPathNames(n) ==
    [i \in 1 .. n + 2 |->
        IF i = 1 THEN "beginPath" ELSE IF i <= n THEN "lineTo"
        ELSE IF i = n + 1 THEN "closePath" ELSE "endPath"]

\* The calls fillContour makes for one cell: onFilledSquareChange(cell),
\* then at most one drawRectangle, then the closed path of the cell if its
\* case is neither 0 nor 15, ended by endPath(cell), and nothing else.
IsFillBlock(block, cell) ==
    LET squareIndex == squareIndexOf(values, call, cell[1], cell[2])
        rectangles == IF Len(block) >= 2 /\ block[2][1] = "drawRectangle" THEN 1 ELSE 0
        path == SubSeq(block, 2 + rectangles, Len(block))
    IN  /\ block[1] = <<"onFilledSquareChange", Num(cell[1]), Num(cell[2])>>
        /\ IF squareIndex \in {0, 15} THEN path = <<>>
           ELSE /\ Names(path) = ClosedPathNames(
                                    Len(marchingSquaresFillVertices[squareIndex + 1]))
                /\ path[Len(path)] = <<"endPath", Num(cell[1]), Num(cell[2])>>

\* C15: at every step of fillContour the painter has been called for the
\* scanned cells in row-major order, for all of them when fillContour has
\* returned: for each cell onFilledSquareChange(cell) once and first, then
\* at most one drawRectangle, then, exactly when the case of the cell is
\* neither 0 nor 15, one path beginPath, lineTo for each other vertex of
\* the fill table, closePath, endPath(cell); the log holds nothing else.
C15_FillCallOrder ==
    call.op = "fillContour" =>
        LET cells == RowMajor(call)
            count == Cardinality(Named(shapePainter, "onFilledSquareChange"))
        IN  /\ count <= Len(cells)
            /\ pc = "done" => count = Len(cells)
            /\ pc = "fillContour" => cells[count + 1] = <<squareX, squareY>>
            /\ shapePainter # <<>> => shapePainter[1][1] = "onFilledSquareChange"
            /\ \A k \in 1 .. count :
                  IsFillBlock(Block(shapePainter, "onFilledSquareChange", k), cells[k])

\* A scan of two rows or more in which a cell has closed a run and drawn
\* its own polygon.
C15_Witness ==
    /\ FillContourDone
    /\ Len(RowMajor(call)) >= 4
    /\ RowMajor(call)[3][2] = 1
    /\ \E k \in 1 .. Len(RowMajor(call)) :
          LET block == Block(shapePainter, "onFilledSquareChange", k)
          IN  /\ Len(block) >= 7
              /\ block[2][1] = "drawRectangle"
              /\ block[3][1] = "beginPath"

\* The number of paths outlineContour owes a cell of the given case.
PathsOf(squareIndex) ==
    IF squareIndex \in {0, 15} THEN 0 ELSE IF squareIndex \in {5, 10} THEN 2 ELSE 1

\* The cell of every path owed to the first n cells, in order.
RECURSIVE OwedPaths(_, _)
OwedPaths(cells, n) ==
    IF n = 0 THEN <<>>
    ELSE OwedPaths(cells, n - 1)
         \o [i \in 1 .. PathsOf(squareIndexOf(values, call, cells[n][1], cells[n][2]))
                |-> cells[n]]

\* The number of cells outlineContour has dealt with.
OutlinedCells ==
    IF pc = "done" THEN Len(RowMajor(call))
    ELSE (CHOOSE k \in 1 .. Len(RowMajor(call)) :
              RowMajor(call)[k] = <<squareX, squareY>>) - 1

\* C16: at every step of outlineContour the log of the painter is made of
\* open paths only, each one beginPath, one lineTo, endPath(cell), without
\* closePath, drawRectangle or onFilledSquareChange: in row-major order of
\* the scanned cells, two paths for a cell of case 5 or 10, one for a cell
\* of any other case but 0 and 15, none for the cases 0 and 15.
C16_OutlinePaths ==
    call.op = "outlineContour" =>
        LET owed == OwedPaths(RowMajor(call), OutlinedCells)
        IN  /\ Len(shapePainter) = 3 * Len(owed)
            /\ \A k \in 1 .. Len(owed) :
                  /\ shapePainter[3 * k - 2][1] = "beginPath"
                  /\ shapePainter[3 * k - 1][1] = "lineTo"
                  /\ shapePainter[3 * k] = <<"endPath", Num(owed[k][1]), Num(owed[k][2])>>

\* An outline with the two separate segments of a saddle cell and no path
\* for a cell of case 0 or 15.
C16_Witness ==
    /\ pc = "done" /\ call.op = "outlineContour"
    /\ \E k \in 1 .. Len(RowMajor(call)) :
          squareIndexOf(values, call, RowMajor(call)[k][1], RowMajor(call)[k][2])
              \in {0, 15}
    /\ \E k \in 1 .. Len(shapePainter) - 5 :
          /\ shapePainter[k][1] = "beginPath"
          /\ shapePainter[k + 3][1] = "beginPath"
          /\ shapePainter[k + 2] = shapePainter[k + 5]
          /\ squareIndexOf(values, call, Floor(shapePainter[k + 2][2]),
                           Floor(shapePainter[k + 2][3])) \in {5, 10}
          /\ {shapePainter[k][2], shapePainter[k + 1][2]}
                \cap {shapePainter[k + 3][2], shapePainter[k + 4][2]} = {}

-----------------------------------------------------------------------------
(* The shading loop.                                                       *)

\* checkAnAddContourNode on the four neighbours of the node, with the seed
\* of the node.
ExpandNode(c, w, node) ==
    The({checkAnAddContourNode(c, w3, node.x, node.y + 1, node.originX, node.originY) :
      w3 \in {checkAnAddContourNode(c, w2, node.x, node.y - 1, node.originX, node.originY) :
        w2 \in {checkAnAddContourNode(c, w1, node.x + 1, node.y, node.originX, node.originY) :
          w1 \in {checkAnAddContourNode(c, w0, node.x - 1, node.y, node.originX, node.originY) :
            w0 \in {Work(values, floodStack, nextContourStack)}}}}})

\* The inner shading loop takes a node from the current layer.
ShadeStep == pc = "shade" /\ contourStack # <<>> /\ contourStack' # contourStack

TopNode == contourStack[Len(contourStack)]

Discarded == values' = values /\ nextContourStack' = nextContourStack

Expanded ==
    \E w \in {ExpandNode(call, Work(values, floodStack, nextContourStack), TopNode)} :
        /\ values' = w.values
        /\ nextContourStack' = w.nextContourStack
        /\ \A i \in Len(nextContourStack) + 1 .. Len(w.nextContourStack) :
              /\ w.nextContourStack[i].originX = TopNode.originX
              /\ w.nextContourStack[i].originY = TopNode.originY

\* Grids on which a wave overtakes another: -1 along the first row and the
\* first column, -1 or 0 in the other cells.
ShadeGrids ==
    {[row \in 1 .. ShadeDimY |-> [col \in 1 .. ShadeDimX |->
         IF row = 1 \/ col = 1 THEN Num(-1) ELSE inner[row - 1][col - 1]]] :
       inner \in [1 .. ShadeDimY - 1 -> [1 .. ShadeDimX - 1 -> {Num(-1), Num(0)}]]}

ShadeSpec == InitWith(ShadeGrids) /\ [][Next]_vars

\* The grids on which the wave of fillFrom meets stale nodes together with
\* the grids on which the wave of unfillFrom writes.
ContourShadeSpec == InitWith(ShadeGrids \cup HighGrids) /\ [][Next]_vars

-----------------------------------------------------------------------------
(* The order of the flood.                                                 *)

\* An iteration on the cell at the given index that forgets the pending
\* cells above it.
floodIterationAtDropping(c, w, index) ==
    LET node == w.floodStack[index]
        taken == [w EXCEPT
                    !.floodStack = SubSeq(w.floodStack, 1, index - 1),
                    !.values = Set(w.values, node.x, node.y, fillingValue(c))]
    IN  The({floodNeighbor(c, w3, node.x, node.y, deltas[4]) :
          w3 \in {floodNeighbor(c, w2, node.x, node.y, deltas[3]) :
            w2 \in {floodNeighbor(c, w1, node.x, node.y, deltas[2]) :
              w1 \in {floodNeighbor(c, w0, node.x, node.y, deltas[1]) :
                w0 \in {taken}}}}})

\* One iteration of the flood loop on the pending cell at the given index
\* of the stack instead of the last one.
floodIterationAt(c, w, index) ==
    LET node == w.floodStack[index]
        x == node.x
        y == node.y
        taken == [w EXCEPT
                    !.floodStack = SubSeq(w.floodStack, 1, index - 1)
                                   \o SubSeq(w.floodStack, index + 1, Len(w.floodStack)),
                    !.values = Set(w.values, x, y, fillingValue(c))]
    IN  The({floodNeighbor(c, w3, x, y, deltas[4]) :
          w3 \in {floodNeighbor(c, w2, x, y, deltas[3]) :
            w2 \in {floodNeighbor(c, w1, x, y, deltas[2]) :
              w1 \in {floodNeighbor(c, w0, x, y, deltas[1]) :
                w0 \in {taken}}}}})

\* The flood loop taking any pending cell: the cells above it move one
\* place down the stack and the object that held the last one is the one
\* popped, so that the objects are handled as in the code's loop.
floodLoopAnyOrder ==
    /\ pc = "flood"
    /\ floodStack # <<>>
    /\ \E index \in 1 .. Len(floodStack) :
       \E w \in {floodIterationAt(call, Work(values, floodStack, nextContourStack),
                                  index)} :
           /\ Len(w.floodStack) <= MaxStack
           /\ values' = w.values
           /\ floodStack' = w.floodStack
           /\ nextContourStack' = w.nextContourStack
           /\ flooded' = flooded \cup {<<floodStack[index].x, floodStack[index].y>>}
           /\ admissions' = admissions \o queued(nextContourStack, w)
           /\ floodPools(Len(floodNodes), w)
    /\ UNCHANGED <<pc, call, contourStack, contourNodes, values0, scanned, returned,
                   calls, marchVars>>

AnyOrderNext ==
    \/ fillFrom
    \/ floodLoopAnyOrder
    \/ shadeContour
    \/ shadeLoop
    \/ shadeSwap

AnyOrderSpec == InitWith(Grids) /\ [][AnyOrderNext]_vars

\* The flood loop of the code run to its end.
RECURSIVE floodAll(_, _)
floodAll(c, w) ==
    IF w.floodStack = <<>> THEN w ELSE floodAll(c, floodIteration(c, w))

\* The inner shading loop run over the current layer, last node first.
RECURSIVE shadeLayer(_, _, _)
shadeLayer(c, w, layer) ==
    IF layer = <<>> THEN w
    ELSE shadeLayer(c, shadeIteration(c, w, layer[Len(layer)]),
                    SubSeq(layer, 1, Len(layer) - 1))

\* shadeContour run to its end: layer after layer.
RECURSIVE shadeAll(_, _)
shadeAll(c, w) ==
    IF w.nextContourStack = <<>> THEN w
    ELSE shadeAll(c, shadeLayer(c, [w EXCEPT !.nextContourStack = <<>>],
                                w.nextContourStack))

\* The grid fillFrom leaves, in the order of the code.
fillResult(v, c) ==
    LET x == Round(c.originX)
        y == Round(c.originY)
        start == IF isInside(v, x, y) /\ canFlood(c, Get(v, x, y))
                 THEN <<[x |-> x, y |-> y]>> ELSE <<>>
    IN  shadeAll(c, floodAll(c, Work(v, start, <<>>))).values

\* The grids and calls of the model reach the result of the code.
FillResultIsTheCode == FillDone => values = fillResult(values0, call)

\* C18 as claimed: whatever the order in which the pending cells of the
\* flood stack are taken, fillFrom leaves the grid the code leaves: the same
\* flooded cells and the same value in every shaded cell.
C18_AnyOrderSameGrid ==
    FillDone =>
        /\ flooded = Component(values0, call)
        /\ values = fillResult(values0, call)

\* C18: whatever the order in which the pending cells of the flood stack
\* are taken, fillFrom floods the cells the code floods, the component of
\* the origin, and leaves in them the value the code leaves; the cells
\* that are not flooded are left between their previous value and the
\* greatest value a disk on a flooded cell gives them.
C18_AnyOrderSameFlood ==
    FillDone =>
        /\ flooded = Component(values0, call)
        /\ \A cell \in flooded :
              Get(values, cell[1], cell[2])
                  = Get(fillResult(values0, call), cell[1], cell[2])
        /\ \A cell \in Cells(values) \ flooded :
              /\ RLe(Get(values0, cell[1], cell[2]), Get(values, cell[1], cell[2]))
              /\ RLe(Get(values, cell[1], cell[2]), DiskShade(call, cell))

\* A flood in another order than the code's has flooded the same three
\* cells or more and shaded a cell the code leaves as it was.
C18_Witness ==
    /\ FillDone
    /\ Cardinality(flooded) >= 3
    /\ flooded = Component(values0, call)
    /\ \E cell \in Cells(values) \ flooded :
          /\ Get(values, cell[1], cell[2]) # Get(values0, cell[1], cell[2])
          /\ Get(fillResult(values0, call), cell[1], cell[2])
                = Get(values0, cell[1], cell[2])

-----------------------------------------------------------------------------
(* The admissions of checkAnAddContourNode.                                *)

CellOf(node) == <<node.x, node.y>>

SeedOf(node) == <<node.originX, node.originY>>

Seeds(log) == {SeedOf(log[i]) : i \in 1 .. Len(log)}

AdmissionsOf(log, seed) == {i \in 1 .. Len(log) : SeedOf(log[i]) = seed}

\* The cells of the grid inside the capped disk around the seed.
CappedDisk(v, c, seed) == {cell \in Cells(v) : RLt(DistSq(cell, seed), CapSq(c))}

\* No pair (cell, seed) is admitted twice, every admission is within the
\* capping radius of its seed, and a seed has no more admissions than there
\* are cells in its capped disk.
AdmittedOnce(log) ==
    /\ \A i, j \in 1 .. Len(log) :
          CellOf(log[i]) = CellOf(log[j]) /\ SeedOf(log[i]) = SeedOf(log[j]) => i = j
    /\ \A i \in 1 .. Len(log) : RLt(DistSq(CellOf(log[i]), SeedOf(log[i])), CapSq(call))
    /\ \A seed \in Seeds(log) :
          Cardinality(AdmissionsOf(log, seed))
              <= Cardinality(CappedDisk(values, call, seed))

\* The admissions of a step: their values are in the grid and their nodes
\* on top of the next layer, and the current layer has received nothing.
AdmittedIntoNextLayer ==
    LET new == SubSeq(admissions', Len(admissions) + 1, Len(admissions'))
    IN  Len(admissions') > Len(admissions) =>
          /\ \A i \in 1 .. Len(new) : Get(values', new[i].x, new[i].y) = new[i].value
          /\ nextContourStack' = nextContourStack \o new
          /\ \/ contourStack' = contourStack
             \/ contourStack' = SubSeq(contourStack, 1, Len(contourStack) - 1)

-----------------------------------------------------------------------------
(* The sentinel of fillFrom.                                               *)

\* C20: at every step of the flood and of the shading of fillFrom every
\* flooded cell holds max(valueMax, thickness^2 * 2^20), no admission of
\* the contour is at a flooded cell, a wave that comes back to its own seed
\* included, and every value the contour has written is strictly smaller
\* than that sentinel.
C20_SentinelExceedsContour ==
    call.op = "fillFrom" =>
        /\ \A cell \in flooded : Get(values, cell[1], cell[2]) = FillValue(call)
        /\ \A i \in 1 .. Len(admissions) :
              /\ CellOf(admissions[i]) \notin flooded
              /\ RLt(admissions[i].value, FillValue(call))
              /\ RLt(Get(values, admissions[i].x, admissions[i].y), FillValue(call))

\* A node next to its seed has been expanded, so that its wave came back to
\* the seed at distance 0, and the seed still holds the sentinel.
C20_Witness ==
    /\ FillDone
    /\ \E i \in 1 .. Len(admissions) :
          /\ DistSq(CellOf(admissions[i]), SeedOf(admissions[i])) = Num(1)
          /\ SeedOf(admissions[i]) \in flooded
          /\ Get(values, admissions[i].x, admissions[i].y) = admissions[i].value
          /\ Get(values, admissions[i].originX, admissions[i].originY) = FillValue(call)
          /\ RLt(Num(0), admissions[i].value)

-----------------------------------------------------------------------------
(* The crossing points of the extractions.                                 *)

\* The markers whose points one loop step asks calcPoint for, in order: the
\* polygon of the cell's case in fillContour, its polylines one after the
\* other in outlineContour, none for the cases 0 and 15.
RECURSIVE Flatten(_)
Flatten(sequences) ==
    IF sequences = <<>> THEN <<>>
    ELSE Head(sequences) \o Flatten(Tail(sequences))

EvaluatedMarkers ==
    LET squareIndex == squareIndexOf(values, call, squareX, squareY)
    IN  IF ~hasGeometry(squareIndex) THEN <<>>
        ELSE IF pc = "fillContour" THEN marchingSquaresFillVertices[squareIndex + 1]
        ELSE Flatten(marchingSquaresOutlineVertices[squareIndex + 1])

\* The points the painter receives in one loop step, in order.
EmittedPoints ==
    LET sent == SubSeq(shapePainter', Len(shapePainter) + 1, Len(shapePainter'))
        points == SelectSeq(sent, LAMBDA e : e[1] \in {"beginPath", "lineTo"})
    IN  [k \in 1 .. Len(points) |-> <<points[k][2], points[k][3]>>]

\* The grid position of the sample at the n-th end of an edge of the cell
\* of the step.
EdgeEnd(side, n) ==
    <<squareX + edgeEnds(side)[n][1], squareY + edgeEnds(side)[n][2]>>

\* p1 + (t - v1) / (v2 - v1) * (p2 - p1)
Interpolation(value1, value2, threshold, p1, p2) ==
    RAdd(Num(p1), RMul(RDiv(RSub(threshold, value1), RSub(value2, value1)),
                       Num(p2 - p1)))

CrossingPoint(side) ==
    LET end1 == EdgeEnd(side, 1)
        end2 == EdgeEnd(side, 2)
        value1 == Get(values, end1[1], end1[2])
        value2 == Get(values, end2[1], end2[2])
    IN  <<Interpolation(value1, value2, call.threshold, end1[1], end2[1]),
          Interpolation(value1, value2, call.threshold, end1[2], end2[2])>>

OppositeSides(value1, value2, threshold) ==
    \/ RGt(value1, threshold) /\ RLe(value2, threshold)
    \/ RGt(value2, threshold) /\ RLe(value1, threshold)

Between(a, low, high) == RLe(Num(low), a) /\ RLe(a, Num(high))

CrossingIsInterpolation(side, point) ==
    LET end1 == EdgeEnd(side, 1)
        end2 == EdgeEnd(side, 2)
        value1 == Get(values, end1[1], end1[2])
        value2 == Get(values, end2[1], end2[2])
        weights == RAdd(RAbs(RSub(value1, call.threshold)),
                        RAbs(RSub(value2, call.threshold)))
    IN  /\ OppositeSides(value1, value2, call.threshold)
        /\ weights # Num(0)
        /\ point = CrossingPoint(side)
        /\ Between(point[1], end1[1], end2[1])
        /\ Between(point[2], end1[2], end2[2])

ExtractionStep ==
    /\ pc \in {"fillContour", "outlineContour"}
    /\ shapePainter' # shapePainter \/ squareX' # squareX \/ squareY' # squareY

\* C21: in every loop step of fillContour and outlineContour the painter
\* receives one point per marker of the cell's case, and for each edge
\* marker among them the two samples at the ends of the edge are on opposite
\* sides of the threshold (one > threshold, the other <= threshold), the sum
\* of the two weights is not 0, and the point sent is the linear
\* interpolation p1 + (t - v1) / (v2 - v1) * (p2 - p1), a point of the closed
\* edge between the two corners.
C21_CrossingsInterpolate ==
    [][ExtractionStep =>
          /\ Len(EmittedPoints) = Len(EvaluatedMarkers)
          /\ \A k \in 1 .. Len(EvaluatedMarkers) :
                EvaluatedMarkers[k] \in EdgeMarkers =>
                    CrossingIsInterpolation(EvaluatedMarkers[k], EmittedPoints[k])]_vars

\* A crossing strictly inside an edge has been sent, and so has a crossing
\* at a corner whose sample equals the threshold.
C21_Witness ==
    /\ call.op \in {"fillContour", "outlineContour"}
    /\ \E k \in Named(shapePainter, "beginPath") \cup Named(shapePainter, "lineTo") :
          \E a \in {shapePainter[k][2], shapePainter[k][3]} : a[2] = 2
    /\ \E x \in 0 .. dimX(values) - 2, y \in 0 .. dimY(values) - 2 :
          /\ Get(values, x, y) = call.threshold
          /\ RGt(Get(values, x + 1, y), call.threshold)
          /\ \E k \in Named(shapePainter, "beginPath") \cup Named(shapePainter, "lineTo") :
                /\ shapePainter[k][2] = Num(x)
                /\ shapePainter[k][3] = Num(y)

-----------------------------------------------------------------------------
(* The values the contour shading writes.                                  *)

\* The nodes a step admits.
Admitted == SubSeq(admissions', Len(admissions) + 1, Len(admissions'))

\* The cell the flood loop sets in a step, if it is a step of that loop.
FloodedInStep == flooded' \ flooded

\* max(2^-20, squared distance from the cell of a node to its seed)
SeedDistanceSq(node) == RMax(<<1, 1048576>>, DistSq(CellOf(node), SeedOf(node)))

\* thickness^2 / d2 in fillFrom, d2 / thickness^2 in unfillFrom
AnchoredValue(node) ==
    IF call.op = "fillFrom"
    THEN RDiv(RMul(call.thickness, call.thickness), SeedDistanceSq(node))
    ELSE RDiv(SeedDistanceSq(node), RMul(call.thickness, call.thickness))

Improves(new, old) ==
    IF call.op = "fillFrom" THEN RGt(new, old) ELSE RLt(new, old)

WrittenInStep ==
    {cell \in Cells(values) :
        Get(values', cell[1], cell[2]) # Get(values, cell[1], cell[2])}

\* C22: every value the contour shading writes is the value of a node
\* admitted in the same step; the seed of the node is a flooded cell; the
\* value is thickness^2 / d2 in fillFrom and d2 / thickness^2 in unfillFrom,
\* with d2 = max(2^-20, squared distance from the cell to the seed); it is
\* strictly greater (fillFrom) or strictly smaller (unfillFrom) than the
\* value it replaces; and no cell that could not be flooded before the step
\* can be flooded after it, unless the flood loop itself set it.
C22_ShadingAnchoredMonotone ==
    [][call.op \in {"fillFrom", "unfillFrom"} /\ pc \in {"flood", "shade"} =>
          /\ WrittenInStep \ FloodedInStep \subseteq {CellOf(node) : node \in Range(Admitted)}
          /\ \A node \in Range(Admitted) :
                /\ SeedOf(node) \in flooded'
                /\ node.value = AnchoredValue(node)
                /\ Get(values', node.x, node.y) = node.value
                /\ Improves(node.value, Get(values, node.x, node.y))
          /\ \A cell \in Cells(values) \ FloodedInStep :
                ~canFlood(call, Get(values, cell[1], cell[2]))
                    => ~canFlood(call, Get(values', cell[1], cell[2]))]_vars

\* unfillFrom has returned after lowering a cell two steps away from its
\* seed to d2 / thickness^2, below the threshold it was not above.
C22_Witness ==
    /\ call.op = "unfillFrom"
    /\ pc = "done"
    /\ \E i \in 1 .. Len(admissions) :
          /\ RLe(Num(4), DistSq(CellOf(admissions[i]), SeedOf(admissions[i])))
          /\ Get(values, admissions[i].x, admissions[i].y) = admissions[i].value
          /\ RLt(admissions[i].value, Get(values0, admissions[i].x, admissions[i].y))
          /\ RLe(Get(values0, admissions[i].x, admissions[i].y), call.value)

-----------------------------------------------------------------------------
(* The nodes the shading loop expands.                                     *)

\* The inner shading loop takes a node and does not skip it: the loop over
\* the four neighbours runs.
Expands == ShadeStep /\ ~isStale(values, TopNode)

HoldsRecordedValue(node) == Get(values, node.x, node.y) = node.value

\* C23: in fillFrom and in unfillFrom, whenever the shading loop expands a
\* node to its neighbours the grid still holds at the cell of the node the
\* value recorded in the node.
C23_ExpandedNodesAreCurrent ==
    [][Expands => HoldsRecordedValue(TopNode)]_vars

\* What holds in fillFrom, where a better value is a larger one.
FillExpandsCurrentNodes ==
    [][Expands /\ call.op = "fillFrom" => HoldsRecordedValue(TopNode)]_vars

\* The next node of unfillFrom's current layer records more than its cell
\* now holds: a nearer seed has lowered the cell since, and the node is not
\* skipped.
C23_UnfillExpandsOvertaken ==
    /\ call.op = "unfillFrom"
    /\ pc = "shade"
    /\ contourStack # <<>>
    /\ RLt(Get(values, TopNode.x, TopNode.y), TopNode.value)
    /\ ~isStale(values, TopNode)

-----------------------------------------------------------------------------
(* The stocks of nodes over several calls.                                 *)

\* The call has returned; fillFrom or unfillFrom is called again on the same
\* FloodFill with the same arguments.
callAgain ==
    /\ pc = "done"
    /\ call.op \in {"fillFrom", "unfillFrom"}
    /\ calls < MaxCalls
    /\ \E op \in {"fillFrom", "unfillFrom"} : floodFrom([call EXCEPT !.op = op])

PoolNext ==
    \/ fillFrom
    \/ unfillFrom
    \/ floodLoop
    \/ shadeContour
    \/ shadeLoop
    \/ shadeSwap
    \/ callAgain

PoolSpec == InitWith(ShadeGrids) /\ [][PoolNext]_vars

NoDuplicates(sequence) == Cardinality(Range(sequence)) = Len(sequence)

\* No object is at once in a stock and on a stack or a layer, and no object
\* is twice in a stock.
StocksApartFromStacks ==
    /\ Range(nodeStock) \cap Range(floodNodes) = {}
    /\ Range(contourNodeStock) \cap (Range(contourNodes) \cup Range(nextContourNodes)) = {}
    /\ NoDuplicates(nodeStock)
    /\ NoDuplicates(contourNodeStock)

\* The stacks hold one object per entry.
StacksHaveObjects ==
    /\ Len(floodNodes) = Len(floodStack)
    /\ Len(contourNodes) = Len(contourStack)
    /\ Len(nextContourNodes) = Len(nextContourStack)

\* When a call has returned the flood stack and the two layers are empty.
EmptyOnReturn ==
    pc = "done" /\ call.op \in {"fillFrom", "unfillFrom"} =>
        floodStack = <<>> /\ contourStack = <<>> /\ nextContourStack = <<>>

\* A step of the flood loop takes the last node of the flood stack.
FloodStep == pc = "flood" /\ floodStack # <<>> /\ pc' = "flood"

\* The node a step takes is not in a stock while the step works on it, and
\* no push of the step is given the object of that node.
ProcessedApartFromStock ==
    /\ FloodStep =>
          /\ floodNodes[Len(floodNodes)] \notin Range(nodeStock)
          /\ floodNodes[Len(floodNodes)] \notin Range(floodNodes')
    /\ ShadeStep =>
          /\ contourNodes[Len(contourNodes)] \notin Range(contourNodeStock)
          /\ contourNodes[Len(contourNodes)] \notin Range(nextContourNodes')

\* The node a step has taken is in its stock after the step.
ReturnedToStock ==
    /\ FloodStep => floodNodes[Len(floodNodes)] \in Range(nodeStock')
    /\ ShadeStep => contourNodes[Len(contourNodes)] \in Range(contourNodeStock')

\* C24: over any sequence of fillFrom / unfillFrom calls on one FloodFill, no
\* node is at once in a stock and on the flood stack, on a layer or being
\* processed, no node is twice in a stock, every node taken from the flood
\* stack or from a layer is in its stock once it has been processed, and
\* when a call has returned the flood stack and the two layers are empty.
C24_PoolDiscipline ==
    [][/\ StocksApartFromStacks'
       /\ EmptyOnReturn'
       /\ ProcessedApartFromStock
       /\ ReturnedToStock]_vars

\* What holds: all of the above but for the nodes the shading loop skips,
\* which are not stocked; a node that is expanded, and every node of the
\* flood stack, is.
PoolDisciplineButSkipped ==
    [][/\ StocksApartFromStacks'
       /\ StacksHaveObjects'
       /\ EmptyOnReturn'
       /\ ProcessedApartFromStock
       /\ FloodStep => floodNodes[Len(floodNodes)] \in Range(nodeStock')
       /\ ShadeStep =>
             IF isStale(values, TopNode)
             THEN contourNodes[Len(contourNodes)] \notin Range(contourNodeStock')
             ELSE contourNodes[Len(contourNodes)] \in Range(contourNodeStock')]_vars

\* A second call has returned after taking nodes from the stocks the first
\* call filled, and a node the shading loop skipped is in no stock.
C24_SkippedNodeIsLost ==
    /\ pc = "done"
    /\ calls = MaxCalls
    /\ flooded # {}
    /\ admissions # <<>>
    /\ floodStack = <<>> /\ contourStack = <<>> /\ nextContourStack = <<>>
    /\ Cardinality(Range(contourNodeStock)) < created[2]

====
